---- MODULE Spec2Model ----
(***************************************************************************)
(* Model of the UK tax computation engine of functions/uk_tax_calculations  *)
(* (TaxThresholds, UKTaxCalculator, calculate_comprehensive_tax_liability). *)
(*                                                                          *)
(* Numbers.  The program computes in binary floating point.  The model      *)
(* computes the same expressions exactly, in fixed point: every monetary    *)
(* value is an integer number of units of 1/1600 pound (Pound units to the  *)
(* pound) and every rate is an integer number of 1/400ths (RateDen).  All   *)
(* rates of the program are multiples of 1/400, and every amount a rate is  *)
(* applied to is a multiple of 1/4 pound when the inputs are whole pounds   *)
(* (x * 1.25 and x * 0.5 are the only other scalings), so Mul, GrossUp and  *)
(* Half below are exact.  A quotient a / b is kept as the pair (num, den).  *)
(***************************************************************************)
EXTENDS Integers, Sequences, FiniteSets, TLC

\* ------------------------------------------------------------------------
\* Fixed-point arithmetic
\* ------------------------------------------------------------------------

\* Denominator of a rate: 0.0875 = 35/400 is the finest rate of the program.
RateDen == 16 * 25

\* Units per pound: a quarter pound (gift aid 1.25, taper 0.5) times a rate.
Pound == 4 * RateDen

\* The float literal n/d (0.20 is Rate(20, 100)) as a number of 1/400ths.
Rate(n, d) == (n * RateDen) \div d

\* amount * rate
Mul(amount, rate) == (amount \div RateDen) * rate

\* x * 1.25
GrossUp(x) == (x \div 4) * 5

\* x * 0.5
Half(x) == x \div 2

\* Python's max and min on two numbers
Max(a, b) == IF a >= b THEN a ELSE b

Min(a, b) == IF a <= b THEN a ELSE b

\* Python's abs
Abs(x) == IF x < 0 THEN 0 - x ELSE x

\* a / b as an exact quotient; den = 0 stands for a raised ZeroDivisionError
Divide(a, b) == [num |-> a, den |-> b]

\* the number 0 where the program stores a rate
ZeroRate == [num |-> 0, den |-> 1]

\* sum() of a list of numbers
RECURSIVE Sum(_)
Sum(s) == IF s = <<>> THEN 0 ELSE Head(s) + Sum(Tail(s))

\* dict.get(key, default)
Get(d, key, default) == IF key \in DOMAIN d THEN d[key] ELSE default

\* ------------------------------------------------------------------------
\* TaxThresholds
\* ------------------------------------------------------------------------

\* TaxThresholds(): the dataclass defaults
TaxThresholds ==
    [ personal_allowance       |-> 12570 * Pound,
      basic_rate_threshold     |-> 50270 * Pound,
      higher_rate_threshold    |-> 125140 * Pound,
      basic_rate               |-> Rate(20, 100),
      higher_rate              |-> Rate(40, 100),
      additional_rate          |-> Rate(45, 100),
      ni_threshold             |-> 12570 * Pound,
      ni_upper_threshold       |-> 50270 * Pound,
      ni_basic_rate            |-> Rate(12, 100),
      ni_higher_rate           |-> Rate(2, 100),
      cgt_allowance            |-> 6000 * Pound,
      cgt_basic_rate           |-> Rate(10, 100),
      cgt_higher_rate          |-> Rate(20, 100),
      cgt_property_basic       |-> Rate(18, 100),
      cgt_property_higher      |-> Rate(24, 100),
      dividend_allowance       |-> 1000 * Pound,
      isa_allowance            |-> 20000 * Pound,
      pension_annual_allowance |-> 60000 * Pound ]

\* ------------------------------------------------------------------------
\* UKTaxCalculator: the calculators, as functions of the table t they read
\* ------------------------------------------------------------------------

\* CalculatePersonalAllowance taking the adjustment off the base allowance
CalculatePersonalAllowance_MinusAdjustment(t, income, adjustment) ==
    LET base_allowance == t.personal_allowance - adjustment
    IN  IF income > 100000 * Pound
        THEN Max(0, base_allowance - Half(income - 100000 * Pound))
        ELSE base_allowance

\* CalculatePersonalAllowance losing a pound of allowance per pound of excess
CalculatePersonalAllowance_FullTaper(t, income, adjustment) ==
    LET base_allowance == t.personal_allowance + adjustment
    IN  IF income > 100000 * Pound
        THEN Max(0, base_allowance - (income - 100000 * Pound))
        ELSE base_allowance

\* _calculate_personal_allowance(income, adjustment)
CalculatePersonalAllowance(t, income, adjustment) ==
    LET base_allowance == t.personal_allowance + adjustment
    IN  IF income > 100000 * Pound
        THEN Max(0, base_allowance - Half(income - 100000 * Pound))
        ELSE base_allowance

\* CalculateTaxBands with the basic band ending one pound early
CalculateTaxBands_OffByOne(t, taxable_income, basic_rate_limit, higher_rate_limit) ==
    LET basic_rate_income  == Min(taxable_income, basic_rate_limit - Pound)
        remaining1         == taxable_income - basic_rate_income
        higher_rate_income == Min(remaining1, higher_rate_limit - basic_rate_limit)
        remaining2         == IF remaining1 > 0 THEN remaining1 - higher_rate_income
                                                ELSE remaining1
    IN  [ basic_rate_tax      |-> Mul(basic_rate_income, t.basic_rate),
          higher_rate_tax     |-> IF remaining1 > 0
                                  THEN Mul(higher_rate_income, t.higher_rate) ELSE 0,
          additional_rate_tax |-> IF remaining2 > 0
                                  THEN Mul(remaining2, t.additional_rate) ELSE 0 ]

\* CalculateTaxBands with the higher band as wide as its ceiling
CalculateTaxBands_HigherFromZero(t, taxable_income, basic_rate_limit, higher_rate_limit) ==
    LET basic_rate_income  == Min(taxable_income, basic_rate_limit)
        remaining1         == taxable_income - basic_rate_income
        higher_rate_income == Min(remaining1, higher_rate_limit)
        remaining2         == IF remaining1 > 0 THEN remaining1 - higher_rate_income
                                                ELSE remaining1
    IN  [ basic_rate_tax      |-> Mul(basic_rate_income, t.basic_rate),
          higher_rate_tax     |-> IF remaining1 > 0
                                  THEN Mul(higher_rate_income, t.higher_rate) ELSE 0,
          additional_rate_tax |-> IF remaining2 > 0
                                  THEN Mul(remaining2, t.additional_rate) ELSE 0 ]

\* CalculateTaxBands with the basic band narrowed by the personal allowance
CalculateTaxBands_BasicWidth(t, taxable_income, basic_rate_limit, higher_rate_limit) ==
    LET basic_rate_income  == Min(taxable_income, basic_rate_limit - t.personal_allowance)
        remaining1         == taxable_income - basic_rate_income
        higher_rate_income == Min(remaining1, higher_rate_limit - basic_rate_limit)
        remaining2         == IF remaining1 > 0 THEN remaining1 - higher_rate_income
                                                ELSE remaining1
    IN  [ basic_rate_tax      |-> Mul(basic_rate_income, t.basic_rate),
          higher_rate_tax     |-> IF remaining1 > 0
                                  THEN Mul(higher_rate_income, t.higher_rate) ELSE 0,
          additional_rate_tax |-> IF remaining2 > 0
                                  THEN Mul(remaining2, t.additional_rate) ELSE 0 ]

\* _calculate_tax_bands(taxable_income, basic_rate_limit, higher_rate_limit)
CalculateTaxBands(t, taxable_income, basic_rate_limit, higher_rate_limit) ==
    LET basic_rate_income  == Min(taxable_income, basic_rate_limit)
        remaining1         == taxable_income - basic_rate_income
        higher_rate_income == Min(remaining1, higher_rate_limit - basic_rate_limit)
        remaining2         == IF remaining1 > 0 THEN remaining1 - higher_rate_income
                                                ELSE remaining1
    IN  [ basic_rate_tax      |-> Mul(basic_rate_income, t.basic_rate),
          higher_rate_tax     |-> IF remaining1 > 0
                                  THEN Mul(higher_rate_income, t.higher_rate) ELSE 0,
          additional_rate_tax |-> IF remaining2 > 0
                                  THEN Mul(remaining2, t.additional_rate) ELSE 0 ]

\* _calculate_marginal_rate(income)
CalculateMarginalRate_Strict(t, income) ==
    IF income < t.personal_allowance THEN 0
    ELSE IF income < t.basic_rate_threshold THEN t.basic_rate
    ELSE IF income < t.higher_rate_threshold THEN t.higher_rate
    ELSE t.additional_rate

CalculateMarginalRate(t, income) ==
    IF income <= t.personal_allowance THEN 0
    ELSE IF income <= t.basic_rate_threshold THEN t.basic_rate
    ELSE IF income <= t.higher_rate_threshold THEN t.higher_rate
    ELSE t.additional_rate

\* sum(tax_breakdown.values())
SumBands(tax_breakdown) ==
    tax_breakdown.basic_rate_tax + tax_breakdown.higher_rate_tax
        + tax_breakdown.additional_rate_tax

\* EffectiveRate without the guard on gross_income
EffectiveRate_Unguarded(total, gross_income) == Divide(total, gross_income)

\* the conditional expression "total / gross_income if gross_income > 0 else 0"
EffectiveRate(total, gross_income) ==
    IF gross_income > 0 THEN Divide(total, gross_income) ELSE ZeroRate

\* CalculateIncomeTax extending only the basic ceiling by the gift aid
CalculateIncomeTax_BasicOnlyExtended(t, gross_income, pension_contributions, gift_aid_donations, personal_allowance_adjustment) ==
    LET adjusted_gross_income == gross_income - pension_contributions
        gift_aid_gross        == GrossUp(gift_aid_donations)
        extended_income       == adjusted_gross_income + gift_aid_gross
        personal_allowance    == CalculatePersonalAllowance(
                                     t, adjusted_gross_income,
                                     personal_allowance_adjustment)
        taxable_income        == Max(0, adjusted_gross_income - personal_allowance)
        basic_rate_limit      == t.basic_rate_threshold + gift_aid_gross
        higher_rate_limit     == t.higher_rate_threshold
        tax_breakdown         == CalculateTaxBands(t, taxable_income,
                                                   basic_rate_limit, higher_rate_limit)
    IN  [ gross_income          |-> gross_income,
          pension_contributions |-> pension_contributions,
          gift_aid_donations    |-> gift_aid_donations,
          gift_aid_gross        |-> gift_aid_gross,
          personal_allowance    |-> personal_allowance,
          taxable_income        |-> taxable_income,
          tax_bands             |-> tax_breakdown,
          total_tax             |-> SumBands(tax_breakdown),
          effective_rate        |-> EffectiveRate(SumBands(tax_breakdown), gross_income),
          marginal_rate         |-> CalculateMarginalRate(t, extended_income) ]

\* calculate_income_tax(gross_income, pension_contributions,
\*                      gift_aid_donations, personal_allowance_adjustment)
CalculateIncomeTax(t, gross_income, pension_contributions, gift_aid_donations, personal_allowance_adjustment) ==
    LET adjusted_gross_income == gross_income - pension_contributions
        gift_aid_gross        == GrossUp(gift_aid_donations)
        extended_income       == adjusted_gross_income + gift_aid_gross
        personal_allowance    == CalculatePersonalAllowance(
                                     t, adjusted_gross_income,
                                     personal_allowance_adjustment)
        taxable_income        == Max(0, adjusted_gross_income - personal_allowance)
        basic_rate_limit      == t.basic_rate_threshold + gift_aid_gross
        higher_rate_limit     == t.higher_rate_threshold + gift_aid_gross
        tax_breakdown         == CalculateTaxBands(t, taxable_income,
                                                   basic_rate_limit, higher_rate_limit)
    IN  [ gross_income          |-> gross_income,
          pension_contributions |-> pension_contributions,
          gift_aid_donations    |-> gift_aid_donations,
          gift_aid_gross        |-> gift_aid_gross,
          personal_allowance    |-> personal_allowance,
          taxable_income        |-> taxable_income,
          tax_bands             |-> tax_breakdown,
          total_tax             |-> SumBands(tax_breakdown),
          effective_rate        |-> EffectiveRate(SumBands(tax_breakdown), gross_income),
          marginal_rate         |-> CalculateMarginalRate(t, extended_income) ]

\* NIClass1 charging the upper rate on all income above the lower threshold
NIClass1_UpperFromThreshold(t, employment_income) ==
    IF employment_income > t.ni_threshold
    THEN LET basic_band == Min(employment_income, t.ni_upper_threshold) - t.ni_threshold
         IN  Mul(basic_band, t.ni_basic_rate)
             + ( IF employment_income > t.ni_upper_threshold
                 THEN Mul(employment_income - t.ni_threshold, t.ni_higher_rate)
                 ELSE 0 )
    ELSE 0

\* calculate_national_insurance, class 1 employee contribution
NIClass1(t, employment_income) ==
    IF employment_income > t.ni_threshold
    THEN LET basic_band == Min(employment_income, t.ni_upper_threshold) - t.ni_threshold
         IN  Mul(basic_band, t.ni_basic_rate)
             + ( IF employment_income > t.ni_upper_threshold
                 THEN Mul(employment_income - t.ni_upper_threshold, t.ni_higher_rate)
                 ELSE 0 )
    ELSE 0

\* NIClass4 charged only inside the window of the class 2 charge
NIClass4_OnlyWithFlatCharge(t, self_employment_income) ==
    IF self_employment_income > t.ni_threshold
       /\ self_employment_income <= 50270 * Pound
    THEN Mul(self_employment_income - t.ni_threshold, Rate(9, 100))
    ELSE 0

\* calculate_national_insurance, class 4 self-employed contribution
NIClass4(t, self_employment_income) ==
    IF self_employment_income > t.ni_threshold
    THEN LET basic_band == Min(self_employment_income, t.ni_upper_threshold) - t.ni_threshold
         IN  Mul(basic_band, Rate(9, 100))
             + ( IF self_employment_income > t.ni_upper_threshold
                 THEN Mul(self_employment_income - t.ni_upper_threshold, t.ni_higher_rate)
                 ELSE 0 )
    ELSE 0

\* NIClass2 with the upper bound of the window left out
NIClass2_UpperBoundExcluded(self_employment_income) ==
    IF 6515 * Pound <= self_employment_income
       /\ self_employment_income < 50270 * Pound
    THEN (345 * 52 * Pound) \div 100
    ELSE 0

\* calculate_national_insurance, class 2 charge: 3.45 * 52 when
\* 6515 <= profits <= 50270
NIClass2(self_employment_income) ==
    IF 6515 * Pound <= self_employment_income
       /\ self_employment_income <= 50270 * Pound
    THEN (345 * 52 * Pound) \div 100
    ELSE 0

\* CalculateNationalInsurance charging class 1 on both incomes together
CalculateNationalInsurance_ClassOneOnBoth(t, employment_income, self_employment_income) ==
    LET class1_employee      == NIClass1(t, employment_income + self_employment_income)
        class2_self_employed == NIClass2(self_employment_income)
        class4_self_employed == NIClass4(t, self_employment_income)
    IN  [ employment_income      |-> employment_income,
          self_employment_income |-> self_employment_income,
          class1_employee        |-> class1_employee,
          class2_self_employed   |-> class2_self_employed,
          class4_self_employed   |-> class4_self_employed,
          total_ni               |-> class1_employee + class2_self_employed
                                        + class4_self_employed ]

\* calculate_national_insurance(employment_income, self_employment_income)
CalculateNationalInsurance(t, employment_income, self_employment_income) ==
    LET class1_employee      == NIClass1(t, employment_income)
        class2_self_employed == NIClass2(self_employment_income)
        class4_self_employed == NIClass4(t, self_employment_income)
    IN  [ employment_income      |-> employment_income,
          self_employment_income |-> self_employment_income,
          class1_employee        |-> class1_employee,
          class2_self_employed   |-> class2_self_employed,
          class4_self_employed   |-> class4_self_employed,
          total_ni               |-> class1_employee + class2_self_employed
                                        + class4_self_employed ]

\* PartitionGains pooling the losses of the other type only
RECURSIVE PartitionGains_PropertyLossesDropped(_, _)
PartitionGains_PropertyLossesDropped(gains_and_losses, acc) ==
    IF gains_and_losses = <<>> THEN acc
    ELSE LET item == Head(gains_and_losses)
             rest == Tail(gains_and_losses)
         IN  IF "type" \notin DOMAIN item \/ "amount" \notin DOMAIN item
             THEN [acc EXCEPT !.error = "KeyError"]
             ELSE IF item.type = "property"
             THEN IF item.amount > 0
                  THEN PartitionGains_PropertyLossesDropped(rest,
                         [acc EXCEPT !.property_gains = Append(@, item.amount)])
                  ELSE PartitionGains_PropertyLossesDropped(rest, acc)
             ELSE IF item.amount > 0
                  THEN PartitionGains_PropertyLossesDropped(rest,
                         [acc EXCEPT !.other_gains = Append(@, item.amount)])
                  ELSE PartitionGains_PropertyLossesDropped(rest,
                         [acc EXCEPT !.total_losses = @ + Abs(item.amount)])

\* PartitionGains passing over the entries that lack a key
RECURSIVE PartitionGains_SkipsMalformed(_, _)
PartitionGains_SkipsMalformed(gains_and_losses, acc) ==
    IF gains_and_losses = <<>> THEN acc
    ELSE LET item == Head(gains_and_losses)
             rest == Tail(gains_and_losses)
         IN  IF "type" \notin DOMAIN item \/ "amount" \notin DOMAIN item
             THEN PartitionGains_SkipsMalformed(rest, acc)
             ELSE IF item.amount <= 0
             THEN PartitionGains_SkipsMalformed(rest,
                      [acc EXCEPT !.total_losses = @ + Abs(item.amount)])
             ELSE IF item.type = "property"
             THEN PartitionGains_SkipsMalformed(rest,
                      [acc EXCEPT !.property_gains = Append(@, item.amount)])
             ELSE PartitionGains_SkipsMalformed(rest,
                      [acc EXCEPT !.other_gains = Append(@, item.amount)])

\* The partition loop of calculate_capital_gains_tax over the entries, in
\* order.  item['type'] is read first and item['amount'] second; reading a
\* key the entry does not carry raises KeyError and ends the loop.
RECURSIVE PartitionGains(_, _)
PartitionGains(gains_and_losses, acc) ==
    IF gains_and_losses = <<>> THEN acc
    ELSE LET item == Head(gains_and_losses)
         IN  IF "type" \notin DOMAIN item \/ "amount" \notin DOMAIN item
             THEN [acc EXCEPT !.error = "KeyError"]
             ELSE IF item.type = "property"
             THEN IF item.amount > 0
                  THEN PartitionGains(Tail(gains_and_losses),
                         [acc EXCEPT !.property_gains = Append(@, item.amount)])
                  ELSE PartitionGains(Tail(gains_and_losses),
                         [acc EXCEPT !.total_losses = @ + Abs(item.amount)])
             ELSE IF item.amount > 0
                  THEN PartitionGains(Tail(gains_and_losses),
                         [acc EXCEPT !.other_gains = Append(@, item.amount)])
                  ELSE PartitionGains(Tail(gains_and_losses),
                         [acc EXCEPT !.total_losses = @ + Abs(item.amount)])

\* CalculateCapitalGainsTax applying the standard rate first
CalculateCapitalGainsTax_OtherFirst(t, gains_and_losses, annual_exempt_amount) ==
    LET parts == PartitionGains(gains_and_losses,
                     [ property_gains |-> <<>>, other_gains |-> <<>>,
                       total_losses |-> 0, error |-> "" ])
        total_property_gains   == Sum(parts.property_gains)
        total_other_gains      == Sum(parts.other_gains)
        total_gross_gains      == total_property_gains + total_other_gains
        net_gains_after_losses == Max(0, total_gross_gains - parts.total_losses)
        taxable_gains          == Max(0, net_gains_after_losses - annual_exempt_amount)
        other_tax              == Mul(Min(taxable_gains, total_other_gains),
                                      t.cgt_basic_rate)
        property_tax           == Mul(Max(0, taxable_gains - total_other_gains),
                                      t.cgt_property_basic)
    IN  IF parts.error # ""
        THEN [ error |-> parts.error ]
        ELSE [ total_gross_gains         |-> total_gross_gains,
               total_losses              |-> parts.total_losses,
               net_gains_after_losses    |-> net_gains_after_losses,
               annual_exempt_amount_used |-> Min(annual_exempt_amount,
                                                 net_gains_after_losses),
               taxable_gains             |-> taxable_gains,
               property_tax              |-> property_tax,
               other_gains_tax           |-> other_tax,
               total_cgt                 |-> property_tax + other_tax ]

\* calculate_capital_gains_tax(gains_and_losses, annual_exempt_amount):
\* [error |-> e] when the loop raised, the result dictionary otherwise
CalculateCapitalGainsTax(t, gains_and_losses, annual_exempt_amount) ==
    LET parts == PartitionGains(gains_and_losses,
                     [ property_gains |-> <<>>, other_gains |-> <<>>,
                       total_losses |-> 0, error |-> "" ])
        total_property_gains   == Sum(parts.property_gains)
        total_other_gains      == Sum(parts.other_gains)
        total_gross_gains      == total_property_gains + total_other_gains
        net_gains_after_losses == Max(0, total_gross_gains - parts.total_losses)
        taxable_gains          == Max(0, net_gains_after_losses - annual_exempt_amount)
        property_tax           == Mul(Min(taxable_gains, total_property_gains),
                                      t.cgt_property_basic)
        other_tax              == Mul(Max(0, taxable_gains - total_property_gains),
                                      t.cgt_basic_rate)
    IN  IF parts.error # ""
        THEN [ error |-> parts.error ]
        ELSE [ total_gross_gains         |-> total_gross_gains,
               total_losses              |-> parts.total_losses,
               net_gains_after_losses    |-> net_gains_after_losses,
               annual_exempt_amount_used |-> Min(annual_exempt_amount,
                                                 net_gains_after_losses),
               taxable_gains             |-> taxable_gains,
               property_tax              |-> property_tax,
               other_gains_tax           |-> other_tax,
               total_cgt                 |-> property_tax + other_tax ]

\* CalculateRentalIncomeTax giving relief on no more interest than the profit
CalculateRentalIncomeTax_ReliefCappedByProfit(t, gross_rental_income, allowable_expenses, mortgage_interest, property_allowance_election) ==
    LET net_rental_income ==
            IF property_allowance_election
            THEN Max(0, gross_rental_income - 1000 * Pound)
            ELSE gross_rental_income - allowable_expenses
    IN  [ gross_rental_income         |-> gross_rental_income,
          allowable_expenses          |-> IF property_allowance_election
                                          THEN 0 ELSE allowable_expenses,
          property_allowance_used     |-> IF property_allowance_election
                                          THEN 1000 * Pound ELSE 0,
          net_rental_income           |-> net_rental_income,
          taxable_rental_profit       |-> Max(0, net_rental_income),
          mortgage_interest           |-> mortgage_interest,
          mortgage_interest_relief    |-> IF property_allowance_election
                                          THEN 0
                                          ELSE Mul(Min(mortgage_interest,
                                                       Max(0, net_rental_income)),
                                                   Rate(20, 100)),
          property_allowance_election |-> property_allowance_election ]

\* calculate_rental_income_tax(gross_rental_income, allowable_expenses,
\*                             mortgage_interest, property_allowance_election)
CalculateRentalIncomeTax(t, gross_rental_income, allowable_expenses, mortgage_interest, property_allowance_election) ==
    LET net_rental_income ==
            IF property_allowance_election
            THEN Max(0, gross_rental_income - 1000 * Pound)
            ELSE gross_rental_income - allowable_expenses
    IN  [ gross_rental_income         |-> gross_rental_income,
          allowable_expenses          |-> IF property_allowance_election
                                          THEN 0 ELSE allowable_expenses,
          property_allowance_used     |-> IF property_allowance_election
                                          THEN 1000 * Pound ELSE 0,
          net_rental_income           |-> net_rental_income,
          taxable_rental_profit       |-> Max(0, net_rental_income),
          mortgage_interest           |-> mortgage_interest,
          mortgage_interest_relief    |-> IF property_allowance_election
                                          THEN 0
                                          ELSE Mul(mortgage_interest, Rate(20, 100)),
          property_allowance_election |-> property_allowance_election ]

\* CalculateDividendTax measuring the basic-rate room from the whole income
CalculateDividendTax_RoomFromTotal(t, dividend_income, total_income) ==
    LET taxable_dividends     == Max(0, dividend_income - t.dividend_allowance)
        basic_rate_remaining  == Max(0, t.basic_rate_threshold - total_income)
        basic_rate_dividends  == Min(taxable_dividends, basic_rate_remaining)
        remaining1            == taxable_dividends - basic_rate_dividends
        higher_rate_limit     == t.higher_rate_threshold - t.basic_rate_threshold
        higher_rate_dividends == Min(remaining1, higher_rate_limit)
        remaining2            == remaining1 - higher_rate_dividends
        tax == Mul(basic_rate_dividends, Rate(875, 10000))
               + Mul(higher_rate_dividends, Rate(3375, 10000))
               + Mul(remaining2, Rate(3925, 10000))
    IN  [ dividend_income         |-> dividend_income,
          dividend_allowance_used |-> Min(dividend_income, t.dividend_allowance),
          taxable_dividends       |-> taxable_dividends,
          dividend_tax            |-> tax,
          effective_dividend_rate |-> IF dividend_income > 0
                                      THEN Divide(tax, dividend_income)
                                      ELSE ZeroRate ]

\* calculate_dividend_tax(dividend_income, total_income)
CalculateDividendTax(t, dividend_income, total_income) ==
    LET taxable_dividends     == Max(0, dividend_income - t.dividend_allowance)
        basic_rate_remaining  == Max(0, t.basic_rate_threshold
                                          - (total_income - dividend_income))
        basic_rate_dividends  == Min(taxable_dividends, basic_rate_remaining)
        remaining1            == taxable_dividends - basic_rate_dividends
        higher_rate_limit     == t.higher_rate_threshold - t.basic_rate_threshold
        higher_rate_dividends == Min(remaining1, higher_rate_limit)
        remaining2            == remaining1 - higher_rate_dividends
        tax == Mul(basic_rate_dividends, Rate(875, 10000))
               + Mul(higher_rate_dividends, Rate(3375, 10000))
               + Mul(remaining2, Rate(3925, 10000))
    IN  [ dividend_income         |-> dividend_income,
          dividend_allowance_used |-> Min(dividend_income, t.dividend_allowance),
          taxable_dividends       |-> taxable_dividends,
          dividend_tax            |-> tax,
          effective_dividend_rate |-> IF dividend_income > 0
                                      THEN Divide(tax, dividend_income)
                                      ELSE ZeroRate ]

\* ------------------------------------------------------------------------
\* Bounds and inputs
\* ------------------------------------------------------------------------

\* number of computations that may be in progress at once
NProcs == 2

\* the clock read by datetime.now() runs from 0 to MaxClock
MaxClock == 1

\* longest list of gain/loss entries in a declaration
MaxGains == 2

Procs == 1..NProcs

\* a dictionary from a record of optional values (<<>> absent, <<v>> present)
MakeDict(opt) == [k \in {x \in DOMAIN opt : Len(opt[x]) = 1} |-> opt[k][1]]

\* optional values of the monetary fields of a declaration, in pounds
Opt(pounds) == {<<>>} \cup {<<n * Pound>> : n \in pounds}

EmploymentOpts == Opt({0, 50000, 110000, -1000})

SelfEmploymentOpts == Opt({30000})

PensionOpts == Opt({5000})

GiftAidOpts == Opt({1000})

DividendOpts == Opt({5000})

\* rental sub-declarations: (gross_income, expenses, mortgage_interest,
\* property_allowance_election), each optional
RentalFields ==
    { [gross_income |-> <<>>, expenses |-> <<>>, mortgage_interest |-> <<>>,
       property_allowance_election |-> <<>>],
      [gross_income |-> <<12000 * Pound>>, expenses |-> <<3000 * Pound>>,
       mortgage_interest |-> <<4000 * Pound>>, property_allowance_election |-> <<>>],
      [gross_income |-> <<12000 * Pound>>, expenses |-> <<3000 * Pound>>,
       mortgage_interest |-> <<4000 * Pound>>, property_allowance_election |-> <<TRUE>>],
      [gross_income |-> <<500 * Pound>>, expenses |-> <<2000 * Pound>>,
       mortgage_interest |-> <<60000 * Pound>>, property_allowance_election |-> <<FALSE>>] }

\* gain/loss entries; the last one carries no amount
GainEntries ==
    { [type |-> <<"property">>, amount |-> <<30000 * Pound>>],
      [type |-> <<"property">>, amount |-> <<0 - 5000 * Pound>>],
      [type |-> <<"other">>, amount |-> <<10000 * Pound>>],
      [type |-> <<"other">>, amount |-> <<>>] }

\* lists of at most n gain/loss entries
RECURSIVE GainLists(_)
GainLists(n) ==
    IF n = 0 THEN {<<>>}
    ELSE LET shorter == GainLists(n - 1)
         IN  shorter \cup {Append(l, e) : l \in shorter, e \in GainEntries}

\* the entries of a list as dictionaries
EntryDicts(l) == [i \in 1..Len(l) |-> MakeDict(l[i])]

\* ------------------------------------------------------------------------
\* State
\* ------------------------------------------------------------------------

VARIABLES
    thresholds,   \* calculator.thresholds, the table every calculator reads
    now,          \* the clock datetime.now() reads
    pc,           \* pc[p]: the step computation p takes next
    frame,        \* frame[p]: the local variables of computation p, by name
    calls,        \* calls[p]: the calculator calls made so far, with arguments
    returned,     \* returned[p]: <<result>> once the call has returned
    raised,       \* raised[p]: the exception the call ended with, or ""
    direct,       \* the last direct call of a calculator method and its value
    built         \* the last TaxThresholds(...) constructed by a client

vars == <<thresholds, now, pc, frame, calls, returned, raised, direct, built>>

\* a dictionary with no keys
EmptyDict == [k \in {} |-> 0]

\* UKTaxCalculator.__init__
UKTaxCalculatorInit == TaxThresholds

Init ==
    /\ thresholds = UKTaxCalculatorInit
    /\ now = 0
    /\ pc = [p \in Procs |-> "idle"]
    /\ frame = [p \in Procs |-> EmptyDict]
    /\ calls = [p \in Procs |-> <<>>]
    /\ returned = [p \in Procs |-> <<>>]
    /\ raised = [p \in Procs |-> ""]
    /\ direct = [fn |-> "", args |-> <<>>, value |-> EmptyDict, raised |-> ""]
    /\ built = [table |-> TaxThresholds, raised |-> ""]

\* bind local variables in the frame of p
Bind(p, new) == frame' = [frame EXCEPT ![p] = new @@ @]

\* record a calculator call of p
Called(p, fn, args) == calls' = [calls EXCEPT ![p] = Append(@, [fn |-> fn, args |-> args])]

\* an exception leaves the aggregator: no value is returned
Raise(p, e) ==
    /\ raised' = [raised EXCEPT ![p] = e]
    /\ pc' = [pc EXCEPT ![p] = "raised"]
    /\ UNCHANGED <<frame, returned>>

\* ------------------------------------------------------------------------
\* calculate_comprehensive_tax_liability(income_data), one action per step.
\* Every computation reads the one table thresholds: the calculator each
\* call constructs carries the table Init constructed.
\* ------------------------------------------------------------------------

\* calculator = UKTaxCalculator(); extract income components
Start(p, income_data) ==
    /\ pc[p] = "idle"
    /\ frame' = [frame EXCEPT ![p] =
           [ income_data        |-> income_data,
             employment_income  |-> Get(income_data, "employment_income", 0),
             rental_income_data |-> Get(income_data, "rental_income", EmptyDict),
             investment_income  |-> Get(income_data, "investment_income", EmptyDict),
             capital_gains      |-> Get(income_data, "capital_gains", <<>>) ]]
    /\ calls' = [calls EXCEPT ![p] = <<>>]
    /\ returned' = [returned EXCEPT ![p] = <<>>]
    /\ raised' = [raised EXCEPT ![p] = ""]
    /\ pc' = [pc EXCEPT ![p] = "rental"]
    /\ UNCHANGED <<thresholds, now, direct, built>>

\* RentalArgs with the election taken as made when it is absent
RentalArgs_ElectionDefaultTrue(rental_income_data) ==
    << Get(rental_income_data, "gross_income", 0),
       Get(rental_income_data, "expenses", 0),
       Get(rental_income_data, "mortgage_interest", 0),
       Get(rental_income_data, "property_allowance_election", TRUE) >>

\* the arguments of the calculate_rental_income_tax call
RentalArgs(rental_income_data) ==
    << Get(rental_income_data, "gross_income", 0),
       Get(rental_income_data, "expenses", 0),
       Get(rental_income_data, "mortgage_interest", 0),
       Get(rental_income_data, "property_allowance_election", FALSE) >>

\* rental_tax_calc = calculator.calculate_rental_income_tax(...)
RentalStep(p) ==
    /\ pc[p] = "rental"
    /\ LET args == RentalArgs(frame[p].rental_income_data)
       IN  /\ Bind(p, [rental_tax_calc |->
                  CalculateRentalIncomeTax(thresholds, args[1], args[2], args[3], args[4])])
           /\ Called(p, "calculate_rental_income_tax", args)
    /\ pc' = [pc EXCEPT ![p] = "total"]
    /\ UNCHANGED <<thresholds, now, returned, raised, direct, built>>

\* TotalIncome without the dividends
TotalIncome_NoDividends(employment_income, rental_tax_calc, dividend_income) ==
    employment_income + rental_tax_calc.taxable_rental_profit

\* total_income = employment_income + taxable_rental_profit + dividend_income
TotalIncome(employment_income, rental_tax_calc, dividend_income) ==
    employment_income + rental_tax_calc.taxable_rental_profit + dividend_income

\* dividend_income = ...; total_income = ...
TotalStep(p) ==
    /\ pc[p] = "total"
    /\ LET dividend_income == Get(frame[p].investment_income, "dividends", 0)
       IN  Bind(p, [ dividend_income |-> dividend_income,
                     total_income    |-> TotalIncome(frame[p].employment_income,
                                             frame[p].rental_tax_calc, dividend_income) ])
    /\ pc' = [pc EXCEPT ![p] = "dividend"]
    /\ UNCHANGED <<thresholds, now, calls, returned, raised, direct, built>>

\* dividend_tax_calc = calculator.calculate_dividend_tax(dividend_income, total_income)
DividendStep(p) ==
    /\ pc[p] = "dividend"
    /\ LET args == <<frame[p].dividend_income, frame[p].total_income>>
           calc == CalculateDividendTax(thresholds, args[1], args[2])
       IN  /\ Called(p, "calculate_dividend_tax", args)
           /\ IF calc.effective_dividend_rate.den = 0
              THEN Raise(p, "ZeroDivisionError")
              ELSE /\ Bind(p, [dividend_tax_calc |-> calc])
                   /\ pc' = [pc EXCEPT ![p] = "income"]
                   /\ UNCHANGED <<returned, raised>>
    /\ UNCHANGED <<thresholds, now, direct, built>>

\* the gross_income argument of the calculate_income_tax call
IncomeTaxGross(employment_income, rental_tax_calc) ==
    employment_income + rental_tax_calc.taxable_rental_profit

\* IncomeTaxStep extending the band ceilings of the table in place
IncomeTaxStep_ExtendsTable(p) ==
    /\ pc[p] = "income"
    /\ LET args == << IncomeTaxGross(frame[p].employment_income,
                                     frame[p].rental_tax_calc),
                      Get(frame[p].income_data, "pension_contributions", 0),
                      Get(frame[p].income_data, "gift_aid_donations", 0) >>
           calc == CalculateIncomeTax(thresholds, args[1], args[2], args[3], 0)
       IN  /\ Called(p, "calculate_income_tax", args)
           /\ Bind(p, [income_tax_calc |-> calc])
           /\ thresholds' = [thresholds EXCEPT
                  !.basic_rate_threshold = @ + calc.gift_aid_gross,
                  !.higher_rate_threshold = @ + calc.gift_aid_gross]
    /\ pc' = [pc EXCEPT ![p] = "ni"]
    /\ UNCHANGED <<now, returned, raised, direct, built>>

\* IncomeTaxStep with the self-employment income in gross_income
IncomeTaxStep_TaxesSelfEmployment(p) ==
    /\ pc[p] = "income"
    /\ LET args == << IncomeTaxGross(frame[p].employment_income,
                                     frame[p].rental_tax_calc)
                          + Get(frame[p].income_data, "self_employment_income", 0),
                      Get(frame[p].income_data, "pension_contributions", 0),
                      Get(frame[p].income_data, "gift_aid_donations", 0) >>
           calc == CalculateIncomeTax(thresholds, args[1], args[2], args[3], 0)
       IN  /\ Called(p, "calculate_income_tax", args)
           /\ IF calc.effective_rate.den = 0
              THEN Raise(p, "ZeroDivisionError")
              ELSE /\ Bind(p, [income_tax_calc |-> calc])
                   /\ pc' = [pc EXCEPT ![p] = "ni"]
                   /\ UNCHANGED <<returned, raised>>
    /\ UNCHANGED <<thresholds, now, direct, built>>

\* income_tax_calc = calculator.calculate_income_tax(...)
IncomeTaxStep(p) ==
    /\ pc[p] = "income"
    /\ LET args == << IncomeTaxGross(frame[p].employment_income,
                                     frame[p].rental_tax_calc),
                      Get(frame[p].income_data, "pension_contributions", 0),
                      Get(frame[p].income_data, "gift_aid_donations", 0) >>
           calc == CalculateIncomeTax(thresholds, args[1], args[2], args[3], 0)
       IN  /\ Called(p, "calculate_income_tax", args)
           /\ IF calc.effective_rate.den = 0
              THEN Raise(p, "ZeroDivisionError")
              ELSE /\ Bind(p, [income_tax_calc |-> calc])
                   /\ pc' = [pc EXCEPT ![p] = "ni"]
                   /\ UNCHANGED <<returned, raised>>
    /\ UNCHANGED <<thresholds, now, direct, built>>

\* ni_calc = calculator.calculate_national_insurance(...)
NIStep(p) ==
    /\ pc[p] = "ni"
    /\ LET args == << frame[p].employment_income,
                      Get(frame[p].income_data, "self_employment_income", 0) >>
       IN  /\ Bind(p, [ni_calc |-> CalculateNationalInsurance(thresholds, args[1], args[2])])
           /\ Called(p, "calculate_national_insurance", args)
    /\ pc' = [pc EXCEPT ![p] = "cgt"]
    /\ UNCHANGED <<thresholds, now, returned, raised, direct, built>>

\* cgt_calc = calculator.calculate_capital_gains_tax(capital_gains); the
\* annual_exempt_amount is None, so the table's cgt_allowance is used
CGTStep(p) ==
    /\ pc[p] = "cgt"
    /\ LET args == <<frame[p].capital_gains>>
           calc == CalculateCapitalGainsTax(thresholds, args[1], thresholds.cgt_allowance)
       IN  /\ Called(p, "calculate_capital_gains_tax", args)
           /\ IF "error" \in DOMAIN calc
              THEN Raise(p, calc.error)
              ELSE /\ Bind(p, [cgt_calc |-> calc])
                   /\ pc' = [pc EXCEPT ![p] = "compile"]
                   /\ UNCHANGED <<returned, raised>>
    /\ UNCHANGED <<thresholds, now, direct, built>>

\* total_liability = {...}
TotalLiability(f) ==
    [ income_tax               |-> f.income_tax_calc.total_tax,
      dividend_tax             |-> f.dividend_tax_calc.dividend_tax,
      national_insurance       |-> f.ni_calc.total_ni,
      capital_gains_tax        |-> f.cgt_calc.total_cgt,
      mortgage_interest_relief |-> f.rental_tax_calc.mortgage_interest_relief ]

\* NetTotalTax with the relief added to the liability instead of credited
NetTotalTax_AddsRelief(total_liability) ==
    total_liability.income_tax + total_liability.dividend_tax
        + total_liability.national_insurance + total_liability.capital_gains_tax
        + total_liability.mortgage_interest_relief

\* net_total_tax = (...)
NetTotalTax(total_liability) ==
    total_liability.income_tax + total_liability.dividend_tax
        + total_liability.national_insurance + total_liability.capital_gains_tax
        - total_liability.mortgage_interest_relief

\* "net_total_tax / total_income if total_income > 0 else 0"
AggregateEffectiveRate(net_total_tax, total_income) ==
    IF total_income > 0 THEN Divide(net_total_tax, total_income) ELSE ZeroRate

\* CompileResult with the tax year taken from the clock
CompileResult_YearFromClock(f, date) ==
    LET total_liability == TotalLiability(f)
        net_total_tax   == NetTotalTax(total_liability)
    IN  [ calculation_date   |-> date,
          tax_year           |-> IF date = 0 THEN "2024/25" ELSE "2025/26",
          income_breakdown   |-> [ employment    |-> f.employment_income,
                                   rental        |-> f.rental_tax_calc,
                                   dividends     |-> f.dividend_tax_calc,
                                   capital_gains |-> f.cgt_calc ],
          tax_calculations   |-> [ income_tax         |-> f.income_tax_calc,
                                   national_insurance |-> f.ni_calc,
                                   dividend_tax       |-> f.dividend_tax_calc,
                                   capital_gains_tax  |-> f.cgt_calc ],
          total_liability    |-> total_liability,
          net_total_tax      |-> net_total_tax,
          effective_tax_rate |-> AggregateEffectiveRate(net_total_tax, f.total_income) ]

\* the dictionary returned by calculate_comprehensive_tax_liability, from
\* the locals f and the value date of datetime.now()
CompileResult(f, date) ==
    LET total_liability == TotalLiability(f)
        net_total_tax   == NetTotalTax(total_liability)
    IN  [ calculation_date   |-> date,
          tax_year           |-> "2024/25",
          income_breakdown   |-> [ employment    |-> f.employment_income,
                                   rental        |-> f.rental_tax_calc,
                                   dividends     |-> f.dividend_tax_calc,
                                   capital_gains |-> f.cgt_calc ],
          tax_calculations   |-> [ income_tax         |-> f.income_tax_calc,
                                   national_insurance |-> f.ni_calc,
                                   dividend_tax       |-> f.dividend_tax_calc,
                                   capital_gains_tax  |-> f.cgt_calc ],
          total_liability    |-> total_liability,
          net_total_tax      |-> net_total_tax,
          effective_tax_rate |-> AggregateEffectiveRate(net_total_tax, f.total_income) ]

\* compile total liability and return
CompileStep(p) ==
    /\ pc[p] = "compile"
    /\ LET result == CompileResult(frame[p], now)
       IN  IF result.effective_tax_rate.den = 0
           THEN Raise(p, "ZeroDivisionError")
           ELSE /\ returned' = [returned EXCEPT ![p] = <<result>>]
                /\ pc' = [pc EXCEPT ![p] = "done"]
                /\ UNCHANGED <<frame, raised>>
    /\ UNCHANGED <<thresholds, now, calls, direct, built>>

\* the caller takes the result or the exception; p is free for the next call
Finish(p) ==
    /\ pc[p] \in {"done", "raised"}
    /\ pc' = [pc EXCEPT ![p] = "idle"]
    /\ frame' = [frame EXCEPT ![p] = EmptyDict]
    /\ calls' = [calls EXCEPT ![p] = <<>>]
    /\ returned' = [returned EXCEPT ![p] = <<>>]
    /\ raised' = [raised EXCEPT ![p] = ""]
    /\ UNCHANGED <<thresholds, now, direct, built>>

\* time passes
Tick ==
    /\ now < MaxClock
    /\ now' = now + 1
    /\ UNCHANGED <<thresholds, pc, frame, calls, returned, raised, direct, built>>

\* one step of computation p
Step(p) ==
    \/ RentalStep(p)
    \/ TotalStep(p)
    \/ DividendStep(p)
    \/ IncomeTaxStep(p)
    \/ NIStep(p)
    \/ CGTStep(p)
    \/ CompileStep(p)
    \/ Finish(p)

\* ------------------------------------------------------------------------
\* Declarations handed to the aggregator
\* ------------------------------------------------------------------------

\* a declaration from optional fields
Declaration(e, s, pn, g, r, d, c) ==
    MakeDict([ employment_income      |-> e,
               self_employment_income |-> s,
               pension_contributions  |-> pn,
               gift_aid_donations     |-> g,
               rental_income          |-> r,
               investment_income      |-> d,
               capital_gains          |-> c ])

\* optional rental and investment sub-declarations, optional gains lists
RentalOpts == {<<>>} \cup {<<MakeDict(r)>> : r \in RentalFields}

InvestmentOpts == {<<>>} \cup {<<MakeDict([dividends |-> d])>> : d \in DividendOpts}

GainsOpts == {<<>>} \cup {<<EntryDicts(l)>> : l \in GainLists(MaxGains)}

\* a call with a declaration that has rental income, dividends and a
\* property gain, over two employment incomes and four self-employment
\* incomes
StartPair(p) ==
    /\ pc[p] = "idle"
    /\ \E e \in Opt({50000}), s \in Opt({0, 30000, 60000}) :
           Start(p, Declaration(e, s, <<>>, <<>>,
                                <<MakeDict([gross_income |-> <<12000 * Pound>>,
                                            expenses |-> <<3000 * Pound>>,
                                            mortgage_interest |-> <<4000 * Pound>>])>>,
                                <<MakeDict([dividends |-> <<5000 * Pound>>])>>,
                                <<EntryDicts(<<[type |-> <<"property">>,
                                                amount |-> <<30000 * Pound>>]>>)>>))

\* a call with any declaration over the optional fields
StartWide(p) ==
    /\ pc[p] = "idle"
    /\ \E e \in EmploymentOpts, s \in SelfEmploymentOpts, pn \in PensionOpts,
          g \in GiftAidOpts, r \in RentalOpts, d \in InvestmentOpts, c \in GainsOpts :
           Start(p, Declaration(e, s, pn, g, r, d, c))

\* the declarations of the interleaved computations: the one of
\* test_comprehensive_calculation, the empty one, and one with every part
\* (rental with mortgage interest, gift aid, dividends, gains)
StartSome(p) ==
    /\ pc[p] = "idle"
    /\ \/ Start(p, Declaration(<<50000 * Pound>>, <<>>, <<5000 * Pound>>, <<>>, <<>>, <<>>, <<>>))
       \/ Start(p, Declaration(<<>>, <<>>, <<>>, <<>>, <<>>, <<>>, <<>>))
       \/ \E r \in {<<>>, <<MakeDict([gross_income |-> <<12000 * Pound>>,
                                        mortgage_interest |-> <<4000 * Pound>>])>>} :
           Start(p, Declaration(<<110000 * Pound>>, <<30000 * Pound>>, <<>>, <<1000 * Pound>>,
                                r, <<MakeDict([dividends |-> <<5000 * Pound>>])>>,
                                <<EntryDicts(<<[type |-> <<"property">>,
                                                amount |-> <<30000 * Pound>>]>>)>>))

\* ------------------------------------------------------------------------
\* Direct calls of a calculator method (as the tests make them)
\* ------------------------------------------------------------------------

GrossValues ==
    { n * Pound : n \in {0, 1, 12570, 12571, 50000, 50270, 50271, 62840, 62841,
                         100000, 100001, 110000, 125138, 125140, 125141, 130000,
                         200000} }

PensionValues == { n * Pound : n \in {0, 5000, 60000} }

GiftAidValues == { n * Pound : n \in {0, 3, 1000} }

AdjustmentValues == { n * Pound : n \in {0, 1000, 0 - 2570, 0 - 20000} }

\* calculator.calculate_income_tax(g, pn, d, a)
CallIncomeTax(g, pn, d, a) ==
    /\ LET value == CalculateIncomeTax(thresholds, g, pn, d, a)
       IN  direct' = [ fn     |-> "calculate_income_tax",
                       args   |-> <<g, pn, d, a>>,
                       value  |-> value,
                       raised |-> IF value.effective_rate.den = 0
                                  THEN "ZeroDivisionError" ELSE "" ]
    /\ UNCHANGED <<thresholds, now, pc, frame, calls, returned, raised, built>>

\* taxable amounts handed to _calculate_tax_bands, around the ceilings
TaxableValues ==
    { n * Pound : n \in {0, 1, 37430, 50269, 50270, 50271, 51520, 125139, 125140,
                         125141, 126390, 200000} }

\* grossed-up gift aid by which calculate_income_tax extends the ceilings
ExtensionValues == { n * Pound : n \in {0, 1250} }

\* calculator._calculate_tax_bands(x, basic_rate_threshold + e,
\*                                 higher_rate_threshold + e)
CallTaxBands(x, e) ==
    /\ LET basic_rate_limit  == thresholds.basic_rate_threshold + e
           higher_rate_limit == thresholds.higher_rate_threshold + e
       IN  direct' = [ fn     |-> "_calculate_tax_bands",
                       args   |-> <<x, basic_rate_limit, higher_rate_limit>>,
                       value  |-> CalculateTaxBands(thresholds, x, basic_rate_limit,
                                                    higher_rate_limit),
                       raised |-> "" ]
    /\ UNCHANGED <<thresholds, now, pc, frame, calls, returned, raised, built>>

\* dividend incomes, and the other income that makes up the total with them
DividendValues == { n * Pound : n \in {0, 500, 1000, 5000, 80000, 200000} }

OtherIncomeValues ==
    { n * Pound : n \in {0, 30000, 49000, 50270, 55000, 125140, 130000} }

\* calculator.calculate_dividend_tax(dv, other + dv)
CallDividendTax(dv, other) ==
    /\ LET value == CalculateDividendTax(thresholds, dv, other + dv)
       IN  direct' = [ fn     |-> "calculate_dividend_tax",
                       args   |-> <<dv, other + dv>>,
                       value  |-> value,
                       raised |-> IF value.effective_dividend_rate.den = 0
                                  THEN "ZeroDivisionError" ELSE "" ]
    /\ UNCHANGED <<thresholds, now, pc, frame, calls, returned, raised, built>>

\* gain/loss entries of direct calls: those of the declarations, a loss of
\* the other type and an entry of amount 0
CGTEntries ==
    GainEntries \cup { [type |-> <<"other">>, amount |-> <<0 - 20000 * Pound>>],
                       [type |-> <<"property">>, amount |-> <<0>>] }

\* lists of at most n entries of CGTEntries
RECURSIVE CGTLists(_)
CGTLists(n) ==
    IF n = 0 THEN {<<>>}
    ELSE LET shorter == CGTLists(n - 1)
         IN  shorter \cup {Append(l, e) : l \in shorter, e \in CGTEntries}

\* the annual_exempt_amount argument: absent (None), or an amount
ExemptOpts == Opt({12000})

\* calculator.calculate_capital_gains_tax(l, exempt); an absent
\* annual_exempt_amount is replaced by the table's cgt_allowance
CallCapitalGainsTax(l, exempt) ==
    /\ LET annual_exempt_amount == IF exempt = <<>> THEN thresholds.cgt_allowance
                                                    ELSE exempt[1]
           value == CalculateCapitalGainsTax(thresholds, EntryDicts(l),
                                             annual_exempt_amount)
       IN  direct' = [ fn     |-> "calculate_capital_gains_tax",
                       args   |-> <<EntryDicts(l), exempt>>,
                       value  |-> value,
                       raised |-> IF "error" \in DOMAIN value THEN value.error ELSE "" ]
    /\ UNCHANGED <<thresholds, now, pc, frame, calls, returned, raised, built>>

\* incomes of direct calls of calculate_national_insurance: the thresholds
\* 12570 and 50270, the bounds 6515 and 50270 of the class 2 window, one
\* pound either side of each, and incomes inside each band
NIEmploymentValues ==
    { n * Pound : n \in {0, 12570, 12571, 30000, 50270, 50271, 60000, 100000} }

NISelfEmploymentValues ==
    { n * Pound : n \in {0, 6514, 6515, 12570, 12571, 30000, 50270, 50271, 60000} }

\* calculator.calculate_national_insurance(e, se)
CallNationalInsurance(e, se) ==
    /\ direct' = [ fn     |-> "calculate_national_insurance",
                   args   |-> <<e, se>>,
                   value  |-> CalculateNationalInsurance(thresholds, e, se),
                   raised |-> "" ]
    /\ UNCHANGED <<thresholds, now, pc, frame, calls, returned, raised, built>>

\* arguments of direct calls of calculate_rental_income_tax
RentalGrossValues == { n * Pound : n \in {0, 500, 1000, 12000} }

RentalExpenseValues == { n * Pound : n \in {0, 3000, 15000} }

RentalMortgageValues == { n * Pound : n \in {0, 4000} }

\* calculator.calculate_rental_income_tax(g, x, m, election)
CallRentalIncomeTax(g, x, m, election) ==
    /\ direct' = [ fn     |-> "calculate_rental_income_tax",
                   args   |-> <<g, x, m, election>>,
                   value  |-> CalculateRentalIncomeTax(thresholds, g, x, m, election),
                   raised |-> "" ]
    /\ UNCHANGED <<thresholds, now, pc, frame, calls, returned, raised, built>>

\* ------------------------------------------------------------------------
\* Construction of a rate table by a client: TaxThresholds(**kwargs)
\* ------------------------------------------------------------------------

\* the generated __init__ stores each argument, or the field's default
Construct(kwargs) ==
    /\ built' = [table |-> kwargs @@ TaxThresholds, raised |-> ""]
    /\ UNCHANGED <<thresholds, now, pc, frame, calls, returned, raised, direct>>

\* keyword arguments a client may pass
ConstructSome ==
    \E pa \in Opt({0 - 1, 60000}), brt \in Opt({0 - 50270, 200000}),
       hrt \in Opt({50270}), br \in {<<>>, <<Rate(150, 100)>>, <<Rate(0 - 10, 100)>>},
       nit \in Opt({60000}), hr \in {<<>>, <<Rate(20, 100)>>} :
        Construct(MakeDict([ personal_allowance    |-> pa,
                             basic_rate_threshold  |-> brt,
                             higher_rate_threshold |-> hrt,
                             basic_rate            |-> br,
                             ni_threshold          |-> nit,
                             higher_rate           |-> hr ]))

\* ------------------------------------------------------------------------
\* Specifications
\* ------------------------------------------------------------------------

\* NProcs computations interleaved, time passing
Next ==
    \/ \E p \in Procs : StartSome(p)
    \/ \E p \in Procs : Step(p)
    \/ Tick

Spec == Init /\ [][Next]_vars

\* one computation at a time, over every declaration of the input sets
NextWide ==
    \/ StartWide(1)
    \/ Step(1)

SpecWide == Init /\ [][NextWide]_vars

\* direct calls of the calculator methods
NextCalc ==
    \/ \E g \in GrossValues, pn \in PensionValues, d \in GiftAidValues, a \in AdjustmentValues :
           CallIncomeTax(g, pn, d, a)
    \/ \E x \in TaxableValues, e \in ExtensionValues : CallTaxBands(x, e)
    \/ \E dv \in DividendValues, other \in OtherIncomeValues : CallDividendTax(dv, other)
    \/ \E l \in CGTLists(MaxGains), exempt \in ExemptOpts : CallCapitalGainsTax(l, exempt)
    \/ \E e \in NIEmploymentValues, se \in NISelfEmploymentValues : CallNationalInsurance(e, se)
    \/ \E g \in RentalGrossValues, x \in RentalExpenseValues, m \in RentalMortgageValues, election \in BOOLEAN :
           CallRentalIncomeTax(g, x, m, election)

SpecCalc == Init /\ [][NextCalc]_vars

\* rate tables constructed by a client
NextConfig == ConstructSome

SpecConfig == Init /\ [][NextConfig]_vars

\* NProcs computations interleaved, on declarations that differ in their
\* employment and self-employment income only
NextPair ==
    \/ \E p \in Procs : StartPair(p)
    \/ \E p \in Procs : Step(p)

SpecPair == Init /\ [][NextPair]_vars

\* ------------------------------------------------------------------------
\* Properties
\* ------------------------------------------------------------------------

\* the declaration with every absent field set to 0 / empty list / False
Fill(d) ==
    LET r == Get(d, "rental_income", EmptyDict)
        i == Get(d, "investment_income", EmptyDict)
    IN  [ employment_income      |-> Get(d, "employment_income", 0),
          self_employment_income |-> Get(d, "self_employment_income", 0),
          pension_contributions  |-> Get(d, "pension_contributions", 0),
          gift_aid_donations     |-> Get(d, "gift_aid_donations", 0),
          rental_income          |->
              [ gross_income                |-> Get(r, "gross_income", 0),
                expenses                    |-> Get(r, "expenses", 0),
                mortgage_interest           |-> Get(r, "mortgage_interest", 0),
                property_allowance_election |-> Get(r, "property_allowance_election", FALSE) ],
          investment_income      |-> [ dividends |-> Get(i, "dividends", 0) ],
          capital_gains          |-> Get(d, "capital_gains", <<>>) ]

\* every gain/loss entry of d carries a type and an amount
GainsWellFormed(d) ==
    \A k \in DOMAIN Get(d, "capital_gains", <<>>) :
        {"type", "amount"} \subseteq DOMAIN d.capital_gains[k]

\* the liability figures of a declaration that carries every field, computed
\* on its own against the default table
RunAlone(full) ==
    LET rental == CalculateRentalIncomeTax(TaxThresholds,
                      full.rental_income.gross_income, full.rental_income.expenses,
                      full.rental_income.mortgage_interest,
                      full.rental_income.property_allowance_election)
        base   == full.employment_income + rental.taxable_rental_profit
        total  == base + full.investment_income.dividends
        div    == CalculateDividendTax(TaxThresholds, full.investment_income.dividends, total)
        inc    == CalculateIncomeTax(TaxThresholds, base, full.pension_contributions,
                                     full.gift_aid_donations, 0)
        ni     == CalculateNationalInsurance(TaxThresholds, full.employment_income,
                                             full.self_employment_income)
        cgt    == CalculateCapitalGainsTax(TaxThresholds, full.capital_gains,
                                           TaxThresholds.cgt_allowance)
        net    == inc.total_tax + div.dividend_tax + ni.total_ni + cgt.total_cgt
                      - rental.mortgage_interest_relief
    IN  [ total_liability    |-> [ income_tax               |-> inc.total_tax,
                                   dividend_tax             |-> div.dividend_tax,
                                   national_insurance       |-> ni.total_ni,
                                   capital_gains_tax        |-> cgt.total_cgt,
                                   mortgage_interest_relief |-> rental.mortgage_interest_relief ],
          net_total_tax      |-> net,
          effective_tax_rate |-> IF total > 0 THEN [num |-> net, den |-> total]
                                              ELSE [num |-> 0, den |-> 1] ]

\* the liability figures of a returned result
Figures(result) ==
    [ total_liability    |-> result.total_liability,
      net_total_tax      |-> result.net_total_tax,
      effective_tax_rate |-> result.effective_tax_rate ]

\* C1: in every returned result net_total_tax is income tax + dividend tax +
\* NI + CGT - mortgage interest relief of total_liability, and every entry
\* of total_liability is the total of the nested per-type result.
C1_NetTotalIsSumOfParts ==
    \A p \in Procs : pc[p] = "done" =>
        LET r  == returned[p][1]
            tl == r.total_liability
        IN  /\ r.net_total_tax = tl.income_tax + tl.dividend_tax + tl.national_insurance
                                    + tl.capital_gains_tax - tl.mortgage_interest_relief
            /\ tl.income_tax = r.tax_calculations.income_tax.total_tax
            /\ tl.dividend_tax = r.tax_calculations.dividend_tax.dividend_tax
            /\ tl.dividend_tax = r.income_breakdown.dividends.dividend_tax
            /\ tl.national_insurance = r.tax_calculations.national_insurance.total_ni
            /\ tl.capital_gains_tax = r.tax_calculations.capital_gains_tax.total_cgt
            /\ tl.capital_gains_tax = r.income_breakdown.capital_gains.total_cgt
            /\ tl.mortgage_interest_relief = r.income_breakdown.rental.mortgage_interest_relief

\* a result in which every one of the five parts is positive
C1_Witness ==
    \E p \in Procs :
        /\ pc[p] = "done"
        /\ LET tl == returned[p][1].total_liability
           IN  /\ tl.income_tax > 0 /\ tl.dividend_tax > 0 /\ tl.national_insurance > 0
               /\ tl.capital_gains_tax > 0 /\ tl.mortgage_interest_relief > 0

\* the calls a computation on declaration d makes, in order, with arguments
ExpectedCalls(d) ==
    LET f      == Fill(d)
        rental == CalculateRentalIncomeTax(TaxThresholds,
                      f.rental_income.gross_income, f.rental_income.expenses,
                      f.rental_income.mortgage_interest,
                      f.rental_income.property_allowance_election)
    IN  << [ fn   |-> "calculate_rental_income_tax",
             args |-> << f.rental_income.gross_income, f.rental_income.expenses,
                         f.rental_income.mortgage_interest,
                         f.rental_income.property_allowance_election >> ],
           [ fn   |-> "calculate_dividend_tax",
             args |-> << f.investment_income.dividends,
                         f.employment_income + rental.taxable_rental_profit
                             + f.investment_income.dividends >> ],
           [ fn   |-> "calculate_income_tax",
             args |-> << f.employment_income + rental.taxable_rental_profit,
                         f.pension_contributions, f.gift_aid_donations >> ],
           [ fn   |-> "calculate_national_insurance",
             args |-> << f.employment_income, f.self_employment_income >> ],
           [ fn   |-> "calculate_capital_gains_tax",
             args |-> << f.capital_gains >> ] >>

\* the number of calculator calls made when the computation is at a step
CallsMadeAt(step) ==
    CASE step = "rental"   -> 0
      [] step = "total"    -> 1
      [] step = "dividend" -> 1
      [] step = "income"   -> 2
      [] step = "ni"       -> 3
      [] step = "cgt"      -> 4
      [] OTHER             -> 5

\* C2: the calls of a computation are made in the order rental, dividend,
\* income tax, NI, CGT: dividend tax receives (dividends, employment +
\* taxable rental profit + dividends), income tax receives employment +
\* taxable rental profit as gross income, NI receives (employment,
\* self-employment), CGT receives only the gains list; the
\* dividend call is made only once rental_tax_calc and total_income exist.
C2_FixedOrderAndArguments ==
    \A p \in Procs : pc[p] # "idle" =>
        /\ Len(calls[p]) = CallsMadeAt(pc[p])
        /\ calls[p] = SubSeq(ExpectedCalls(frame[p].income_data), 1, Len(calls[p]))
        /\ Len(calls[p]) >= 1 => "rental_tax_calc" \in DOMAIN frame[p]
        /\ Len(calls[p]) >= 2 => "total_income" \in DOMAIN frame[p]
        /\ pc[p] = "dividend" => {"rental_tax_calc", "total_income"} \subseteq DOMAIN frame[p]

\* a finished computation with rental profit and dividends, so that the
\* three income figures handed over differ
C2_Witness ==
    \E p \in Procs :
        /\ pc[p] = "done"
        /\ Len(calls[p]) = 5
        /\ frame[p].rental_tax_calc.taxable_rental_profit > 0
        /\ frame[p].dividend_income > 0
        /\ frame[p].employment_income > 0

\* C3: no effective rate divides by zero.  The income tax effective_rate is
\* total_tax / gross_income when gross_income > 0 and 0 when it is 0; the
\* aggregate effective_tax_rate is net_total_tax / total_income when
\* total_income > 0 and 0 when it is 0; no computation ends in
\* ZeroDivisionError.
C3_NoDivisionByZero ==
    \A p \in Procs :
        /\ raised[p] # "ZeroDivisionError"
        /\ "income_tax_calc" \in DOMAIN frame[p] =>
               LET c == frame[p].income_tax_calc
               IN  /\ c.gross_income > 0 =>
                          c.effective_rate = [num |-> c.total_tax, den |-> c.gross_income]
                   /\ c.gross_income = 0 => c.effective_rate.num = 0
                   /\ c.effective_rate.den # 0
        /\ pc[p] = "done" =>
               LET r == returned[p][1]
               IN  /\ frame[p].total_income > 0 =>
                          r.effective_tax_rate =
                              [num |-> r.net_total_tax, den |-> frame[p].total_income]
                   /\ frame[p].total_income = 0 => r.effective_tax_rate.num = 0
                   /\ r.effective_tax_rate.den # 0

\* a returned result for a declaration whose incomes are all zero
C3_Witness ==
    \E p \in Procs :
        /\ pc[p] = "done"
        /\ frame[p].total_income = 0
        /\ frame[p].income_tax_calc.gross_income = 0
        /\ returned[p][1].effective_tax_rate.num = 0

\* C4: when a sub-calculator raises (calculate_capital_gains_tax on an entry
\* without a type or an amount), the aggregator returns no result and the
\* call ends with that same error.
C4_ErrorMeansNoResult ==
    \A p \in Procs :
        /\ (pc[p] # "idle" /\ ~GainsWellFormed(frame[p].income_data)) =>
               /\ Len(returned[p]) = 0
               /\ pc[p] # "done"
               /\ Len(calls[p]) = 5 => (pc[p] = "raised" /\ raised[p] = "KeyError")
        /\ pc[p] = "raised" => (Len(returned[p]) = 0 /\ raised[p] # "")
        /\ raised[p] # "" => (pc[p] = "raised" /\ Len(returned[p]) = 0)

\* a computation that ended in the KeyError of the capital gains calculator
\* after the four other calculators had returned
C4_Witness ==
    \E p \in Procs :
        /\ pc[p] = "raised"
        /\ raised[p] = "KeyError"
        /\ Len(calls[p]) = 5
        /\ "ni_calc" \in DOMAIN frame[p]
        /\ Len(returned[p]) = 0

Undated(result) == [k \in DOMAIN result \ {"calculation_date"} |-> result[k]]

TableAndDeclarationKept ==
    /\ thresholds' = thresholds
    /\ \A p \in Procs :
           (pc[p] # "idle" /\ pc'[p] # "idle") =>
               frame'[p].income_data = frame[p].income_data

\* every returned result carries the figures of its declaration run alone
ResultsAsAlone ==
    \A p \in Procs : pc[p] = "done" =>
        Figures(returned[p][1]) = RunAlone(Fill(frame[p].income_data))

\* C6: no step of a computation changes the rate table or the declaration,
\* and under every interleaving of the computations each returns the
\* liability figures it returns when run alone.
C6_NoSharedMutation == [][TableAndDeclarationKept]_vars /\ []ResultsAsAlone

\* one computation returns while another, with gift aid, is past its
\* income tax step and not yet finished
C6_Witness ==
    \E p, q \in Procs :
        /\ p # q
        /\ pc[p] = "done"
        /\ pc[q] \in {"ni", "cgt", "compile"}
        /\ frame[q].income_tax_calc.gift_aid_gross > 0
        /\ frame[p].income_data # frame[q].income_data

\* a table whose thresholds are non-negative and strictly increasing and
\* whose rates lie in [0, 1]
WellFormedTable(t) ==
    /\ \A k \in { "personal_allowance", "basic_rate_threshold", "higher_rate_threshold",
                  "ni_threshold", "ni_upper_threshold", "cgt_allowance",
                  "dividend_allowance", "isa_allowance", "pension_annual_allowance" } :
           t[k] >= 0
    /\ t.personal_allowance < t.basic_rate_threshold
    /\ t.basic_rate_threshold < t.higher_rate_threshold
    /\ t.ni_threshold < t.ni_upper_threshold
    /\ \A k \in { "basic_rate", "higher_rate", "additional_rate", "ni_basic_rate",
                  "ni_higher_rate", "cgt_basic_rate", "cgt_higher_rate",
                  "cgt_property_basic", "cgt_property_higher" } :
           0 <= t[k] /\ t[k] <= RateDen

\* C7: constructing a rate table with a negative threshold, thresholds that
\* are not strictly increasing or a rate outside [0, 1] fails with
\* ConfigError, so every table that was constructed is well formed.
C7_MalformedTableRejected ==
    \/ built.raised = "ConfigError"
    \/ WellFormedTable(built.table)

\* a declaration with a negative monetary field
HasNegativeInput(d) ==
    LET f == Fill(d)
    IN  \/ f.employment_income < 0
        \/ f.self_employment_income < 0
        \/ f.pension_contributions < 0
        \/ f.gift_aid_donations < 0
        \/ f.rental_income.gross_income < 0
        \/ f.rental_income.expenses < 0
        \/ f.rental_income.mortgage_interest < 0
        \/ f.investment_income.dividends < 0

\* C8: a computation given a negative monetary input (negative employment
\* income) is rejected with InvalidInputError and returns no liability
\* figure.
C8_NegativeInputRejected ==
    \A p \in Procs :
        (pc[p] \in {"done", "raised"} /\ HasNegativeInput(frame[p].income_data)) =>
            /\ raised[p] = "InvalidInputError"
            /\ Len(returned[p]) = 0

\* C9: a declaration with any of its fields absent raises no error, and
\* returns a result with tax_year "2024/25", a net_total_tax, and the
\* liability figures of the declaration with the absent fields set to
\* 0 / empty list / False.
C9_AbsentFieldsAreDefaults ==
    \A p \in Procs :
        (pc[p] # "idle" /\ GainsWellFormed(frame[p].income_data)) =>
            /\ raised[p] = ""
            /\ pc[p] # "raised"
            /\ pc[p] = "done" =>
                   LET r == returned[p][1]
                   IN  /\ r.tax_year = "2024/25"
                       /\ "net_total_tax" \in DOMAIN r
                       /\ Figures(r) = RunAlone(Fill(frame[p].income_data))

\* a result for a declaration that has a rental part with income, expenses
\* and mortgage interest but no election, and no employment income
C9_Witness ==
    \E p \in Procs :
        /\ pc[p] = "done"
        /\ "employment_income" \notin DOMAIN frame[p].income_data
        /\ "capital_gains" \notin DOMAIN frame[p].income_data
        /\ "rental_income" \in DOMAIN frame[p].income_data
        /\ "property_allowance_election" \notin DOMAIN frame[p].income_data.rental_income
        /\ "expenses" \in DOMAIN frame[p].income_data.rental_income
        /\ returned[p][1].total_liability.mortgage_interest_relief > 0

\* C10: for non-negative gross income g and pension contributions pn,
\* taxable_income = max(0, (g - pn) - personal_allowance) and total_tax is
\* the sum of the three band taxes; with no deductions and g <= 100000 the
\* allowance is 12570 and taxable income max(0, g - 12570), and when that
\* does not exceed the basic ceiling all tax is basic band tax, positive when
\* taxable income is; g = 50000 gives allowance 12570 and taxable 37430.
C10_TaxableIncomeAndBasicBand ==
    (direct.fn = "calculate_income_tax" /\ direct.args[1] >= 0 /\ direct.args[2] >= 0) =>
        LET g  == direct.args[1]
            pn == direct.args[2]
            v  == direct.value
            plain == direct.args[2] = 0 /\ direct.args[3] = 0 /\ direct.args[4] = 0
        IN  /\ direct.raised = ""
            /\ v.taxable_income = Max(0, (g - pn) - v.personal_allowance)
            /\ v.total_tax = v.tax_bands.basic_rate_tax + v.tax_bands.higher_rate_tax
                                 + v.tax_bands.additional_rate_tax
            /\ (plain /\ g <= 100000 * Pound) =>
                   /\ v.personal_allowance = 12570 * Pound
                   /\ v.taxable_income = Max(0, g - 12570 * Pound)
                   /\ v.taxable_income <= 50270 * Pound =>
                          /\ v.tax_bands.higher_rate_tax = 0
                          /\ v.tax_bands.additional_rate_tax = 0
                          /\ v.total_tax = v.tax_bands.basic_rate_tax
                          /\ v.taxable_income > 0 => v.total_tax > 0
            /\ (plain /\ g = 50000 * Pound) =>
                   /\ v.personal_allowance = 12570 * Pound
                   /\ v.taxable_income = 37430 * Pound

\* the call of test_basic_income_tax: calculate_income_tax(50000)
C10_Witness ==
    /\ direct.fn = "calculate_income_tax"
    /\ direct.args = <<50000 * Pound, 0, 0, 0>>
    /\ direct.value.taxable_income = 37430 * Pound
    /\ direct.value.total_tax = direct.value.tax_bands.basic_rate_tax
    /\ direct.value.total_tax > 0

\* C11: _calculate_tax_bands distributes a non-negative amount left to
\* right over the ceilings: the basic band takes min(amount,
\* basic_rate_limit), the higher band min(rest, higher_rate_limit -
\* basic_rate_limit), the additional band what still remains, each times its
\* rate; amount 0 gives zero tax in all bands, an amount above
\* higher_rate_limit has exactly the excess taxed at the additional rate,
\* and the three band amounts sum to the amount.
C11_BandsLeftToRight ==
    (direct.fn = "_calculate_tax_bands" /\ direct.args[1] >= 0) =>
        LET x      == direct.args[1]
            bl     == direct.args[2]
            hl     == direct.args[3]
            v      == direct.value
            basic  == Min(x, bl)
            higher == Min(x - basic, hl - bl)
            rest   == x - basic - higher
        IN  /\ v.basic_rate_tax = Mul(basic, Rate(20, 100))
            /\ v.higher_rate_tax = Mul(higher, Rate(40, 100))
            /\ v.additional_rate_tax = Mul(rest, Rate(45, 100))
            /\ x = 0 => (v.basic_rate_tax = 0 /\ v.higher_rate_tax = 0
                            /\ v.additional_rate_tax = 0)
            /\ x > hl => v.additional_rate_tax = Mul(x - hl, Rate(45, 100))
            /\ v.basic_rate_tax % Rate(20, 100) = 0
            /\ v.higher_rate_tax % Rate(40, 100) = 0
            /\ v.additional_rate_tax % Rate(45, 100) = 0
            /\ (v.basic_rate_tax \div Rate(20, 100)) + (v.higher_rate_tax \div Rate(40, 100))
                   + (v.additional_rate_tax \div Rate(45, 100)) = x \div RateDen

\* an amount above an extended higher ceiling, taxed in all three bands
C11_Witness ==
    /\ direct.fn = "_calculate_tax_bands"
    /\ direct.args[1] > direct.args[3]
    /\ direct.args[3] > 125140 * Pound
    /\ direct.value.basic_rate_tax > 0
    /\ direct.value.higher_rate_tax > 0
    /\ direct.value.additional_rate_tax > 0

\* the banded tax of taxable income y under the default ceilings
BandedTax(y) ==
    SumBands(CalculateTaxBands(thresholds, y, 50270 * Pound, 125140 * Pound))

\* C12: with the default table and no gift aid the banded tax T(x) of
\* taxable income x >= 0 has T(0) = 0 and grows from x to x + 1 by exactly
\* the basic rate when x < 50270, the higher rate when 50270 <= x < 125140
\* and the additional rate when x >= 125140.
C12_RateChangesAtThresholds ==
    (direct.fn = "_calculate_tax_bands" /\ direct.args[1] >= 0
        /\ direct.args[2] = 50270 * Pound /\ direct.args[3] = 125140 * Pound) =>
        LET x    == direct.args[1]
            tx   == SumBands(direct.value)
            step == BandedTax(x + Pound) - tx
        IN  /\ x = 0 => tx = 0
            /\ tx >= 0
            /\ x < 50270 * Pound => step = Mul(Pound, Rate(20, 100))
            /\ (50270 * Pound <= x /\ x < 125140 * Pound) => step = Mul(Pound, Rate(40, 100))
            /\ x >= 125140 * Pound => step = Mul(Pound, Rate(45, 100))

\* the call whose taxable income is exactly the basic ceiling
C12_Witness ==
    /\ direct.fn = "_calculate_tax_bands"
    /\ direct.args = <<50270 * Pound, 50270 * Pound, 125140 * Pound>>
    /\ direct.value.higher_rate_tax = 0
    /\ BandedTax(50271 * Pound) - SumBands(direct.value) = Mul(Pound, Rate(40, 100))

\* C13: with no allowance adjustment the personal allowance is 12570 for
\* every adjusted gross income <= 100000 (100000 included), and
\* max(0, 12570 - 0.5 * (income - 100000)) above, which is 0 from 125140 on.
C13_AllowanceTaper ==
    (direct.fn = "calculate_income_tax" /\ direct.args[4] = 0) =>
        LET income == direct.args[1] - direct.args[2]
            pa     == direct.value.personal_allowance
        IN  /\ income <= 100000 * Pound => pa = 12570 * Pound
            /\ income > 100000 * Pound =>
                   pa = Max(0, 12570 * Pound - Half(income - 100000 * Pound))
            /\ income >= 125140 * Pound => pa = 0
            /\ (100000 * Pound < income /\ income < 125140 * Pound) =>
                   (0 < pa /\ pa < 12570 * Pound)

\* an income of 110000 with the allowance tapered to 7570
C13_Witness ==
    /\ direct.fn = "calculate_income_tax"
    /\ direct.args = <<110000 * Pound, 0, 0, 0>>
    /\ direct.value.personal_allowance = 7570 * Pound

\* C14 as stated: with a personal_allowance_adjustment a and an adjusted
\* gross income at or below the taper threshold, the personal allowance used
\* is the base allowance minus a.
C14_AllowanceMinusAdjustment ==
    (direct.fn = "calculate_income_tax"
        /\ direct.args[1] - direct.args[2] <= 100000 * Pound) =>
        direct.value.personal_allowance = 12570 * Pound - direct.args[4]

\* C14 amended: with a personal_allowance_adjustment a and an adjusted gross
\* income at or below the taper threshold, the personal allowance used is
\* the base allowance plus a.
C14_AllowancePlusAdjustment ==
    (direct.fn = "calculate_income_tax"
        /\ direct.args[1] - direct.args[2] <= 100000 * Pound) =>
        direct.value.personal_allowance = 12570 * Pound + direct.args[4]

\* an income of 50000 with an adjustment of 1000: the allowance is 13570
C14_Witness ==
    /\ direct.fn = "calculate_income_tax"
    /\ direct.args = <<50000 * Pound, 0, 0, 1000 * Pound>>
    /\ direct.value.personal_allowance = 13570 * Pound
    /\ direct.value.taxable_income = 36430 * Pound

\* C15: for every income and every personal_allowance_adjustment, of either
\* sign, the personal_allowance reported by calculate_income_tax is never
\* negative, so taxable_income never exceeds the adjusted gross income.
C15_AllowanceNeverNegative ==
    direct.fn = "calculate_income_tax" =>
        /\ direct.value.personal_allowance >= 0
        /\ direct.value.taxable_income <= Max(0, direct.args[1] - direct.args[2])

\* the band taxes of amount x >= 0 under ceilings c1 < c2 at 20%, 40%, 45%
BandsUnder(x, c1, c2) ==
    LET basic  == Min(x, c1)
        higher == Min(x - basic, c2 - c1)
    IN  [ basic_rate_tax      |-> Mul(basic, Rate(20, 100)),
          higher_rate_tax     |-> Mul(higher, Rate(40, 100)),
          additional_rate_tax |-> Mul(x - basic - higher, Rate(45, 100)) ]

\* C16: a net gift aid donation d changes the banding of calculate_income_tax
\* only by raising the basic and the higher ceiling by exactly 1.25 * d
\* (50270 + 1.25 d and 125140 + 1.25 d); personal_allowance and
\* taxable_income are those of the same call with d = 0.
C16_GiftAidExtendsBothCeilings ==
    (direct.fn = "calculate_income_tax" /\ direct.args[3] >= 0) =>
        LET d       == direct.args[3]
            v       == direct.value
            gross   == 5 * (d \div 4)
            without == CalculateIncomeTax(thresholds, direct.args[1], direct.args[2],
                                          0, direct.args[4])
        IN  /\ 4 * gross = 5 * d
            /\ v.gift_aid_gross = gross
            /\ v.tax_bands = BandsUnder(v.taxable_income, 50270 * Pound + gross,
                                        125140 * Pound + gross)
            /\ v.personal_allowance = without.personal_allowance
            /\ v.taxable_income = without.taxable_income

\* an income of 200000 with a donation of 1000: the ceilings are 51520 and
\* 126390, and 73610 is taxed at the additional rate
C16_Witness ==
    /\ direct.fn = "calculate_income_tax"
    /\ direct.args = <<200000 * Pound, 0, 1000 * Pound, 0>>
    /\ direct.value.gift_aid_gross = 1250 * Pound
    /\ direct.value.tax_bands.basic_rate_tax = Mul(51520 * Pound, Rate(20, 100))
    /\ direct.value.tax_bands.higher_rate_tax = Mul(74870 * Pound, Rate(40, 100))
    /\ direct.value.tax_bands.additional_rate_tax = Mul(73610 * Pound, Rate(45, 100))

\* the step function over the table's thresholds: 0 up to 12570, 20% up to
\* 50270, 40% up to 125140, 45% above
StepRate(y) ==
    IF y <= 12570 * Pound THEN 0
    ELSE IF y <= 50270 * Pound THEN Rate(20, 100)
    ELSE IF y <= 125140 * Pound THEN Rate(40, 100)
    ELSE Rate(45, 100)

\* C17: the marginal_rate of calculate_income_tax is the step function over
\* the untapered, un-extended thresholds 12570, 50270, 125140, evaluated at
\* gross - pension contributions + 1.25 * gift aid donation.
C17_MarginalRateStep ==
    (direct.fn = "calculate_income_tax" /\ direct.args[3] >= 0) =>
        direct.value.marginal_rate
            = StepRate(direct.args[1] - direct.args[2] + 5 * (direct.args[3] \div 4))

\* 125140 with a donation of 1000: the allowance is tapered to nothing, the
\* higher ceiling is extended to 126390 and covers the whole taxable income,
\* and the marginal rate is the additional rate, 126390 being above 125140
C17_Witness ==
    /\ direct.fn = "calculate_income_tax"
    /\ direct.args = <<125140 * Pound, 0, 1000 * Pound, 0>>
    /\ direct.value.personal_allowance = 0
    /\ direct.value.tax_bands.additional_rate_tax = 0
    /\ direct.value.marginal_rate = Rate(45, 100)

\* C18: calculate_dividend_tax(D, T) taxes max(0, D - 1000): the first
\* min(taxable, room) at 8.75% with room = max(0, 50270 - (T - D)), the next
\* min(rest, 125140 - 50270) at 33.75%, the remainder at 39.25%; with
\* T <= 50270 everything taxable is at 8.75%; for D = 5000 and T = 60000 the
\* allowance shelters 1000 and the other 4000 is split by the room (none is
\* left there); dividend_allowance_used + taxable_dividends = D.
\* (8.75% = 35/400, 33.75% = 135/400, 39.25% = 157/400.)
C18_DividendBands ==
    direct.fn = "calculate_dividend_tax" =>
        LET D       == direct.args[1]
            T       == direct.args[2]
            v       == direct.value
            taxable == IF D - 1000 * Pound > 0 THEN D - 1000 * Pound ELSE 0
            room    == IF 50270 * Pound - (T - D) > 0 THEN 50270 * Pound - (T - D) ELSE 0
            first   == IF taxable < room THEN taxable ELSE room
            rest    == taxable - first
            width   == (125140 - 50270) * Pound
            next    == IF rest < width THEN rest ELSE width
        IN  /\ v.taxable_dividends = taxable
            /\ v.dividend_tax = (first \div 400) * 35
                                + (next \div 400) * 135
                                + ((rest - next) \div 400) * 157
            /\ T <= 50270 * Pound => v.dividend_tax = (taxable \div 400) * 35
            /\ (D = 5000 * Pound /\ T = 60000 * Pound) =>
                   /\ v.dividend_allowance_used = 1000 * Pound
                   /\ v.taxable_dividends = 4000 * Pound
                   /\ first = 0
                   /\ v.dividend_tax = 1350 * Pound
            /\ v.dividend_allowance_used + v.taxable_dividends = D

\* dividends of 5000 within a total of 60000: 4000 taxed, all at 33.75%
C18_Witness ==
    /\ direct.fn = "calculate_dividend_tax"
    /\ direct.args = <<5000 * Pound, 60000 * Pound>>
    /\ direct.value.taxable_dividends = 4000 * Pound
    /\ direct.value.dividend_tax = 1350 * Pound

\* the sum of the positive amounts of the entries whose type is in types
RECURSIVE GainsOf(_, _)
GainsOf(entries, types) ==
    IF entries = <<>> THEN 0
    ELSE LET e == Head(entries)
         IN  (IF e.type \in types /\ e.amount > 0 THEN e.amount ELSE 0)
                 + GainsOf(Tail(entries), types)

\* the sum of the absolute values of the non-positive amounts, of any type
RECURSIVE LossesOf(_)
LossesOf(entries) ==
    IF entries = <<>> THEN 0
    ELSE LET e == Head(entries)
         IN  (IF e.amount <= 0 THEN 0 - e.amount ELSE 0) + LossesOf(Tail(entries))

\* the exempt amount a direct call of calculate_capital_gains_tax works with
ExemptOf(arg) == IF arg = <<>> THEN 6000 * Pound ELSE arg[1]

\* C19: for a list of gain/loss entries calculate_capital_gains_tax pools the
\* absolute values of all non-positive entries, of both types, into
\* total_losses; net_gains_after_losses = max(0, gross gains - total_losses);
\* taxable_gains = max(0, net - exempt amount);
\* annual_exempt_amount_used = min(exempt amount, net), so it never exceeds
\* net gains and, added to taxable_gains, gives net gains.
C19_LossesPooledThenExemption ==
    (direct.fn = "calculate_capital_gains_tax" /\ direct.raised = "") =>
        LET entries == direct.args[1]
            exempt  == ExemptOf(direct.args[2])
            v       == direct.value
            gross   == GainsOf(entries, {"property", "other"})
            net     == IF gross - LossesOf(entries) > 0 THEN gross - LossesOf(entries) ELSE 0
        IN  /\ v.total_gross_gains = gross
            /\ v.total_losses = LossesOf(entries)
            /\ v.net_gains_after_losses = net
            /\ v.taxable_gains = (IF net - exempt > 0 THEN net - exempt ELSE 0)
            /\ v.annual_exempt_amount_used = (IF exempt < net THEN exempt ELSE net)
            /\ v.annual_exempt_amount_used <= v.net_gains_after_losses
            /\ v.annual_exempt_amount_used + v.taxable_gains = v.net_gains_after_losses

\* an other gain of 10000 and a property loss of 5000 under the default
\* exemption of 6000: the loss is pooled against the gain of the other type,
\* net 5000, exemption used 5000, nothing taxable
C19_Witness ==
    /\ direct.fn = "calculate_capital_gains_tax"
    /\ direct.raised = ""
    /\ direct.args[2] = <<>>
    /\ Len(direct.args[1]) = 2
    /\ direct.value.total_gross_gains = 10000 * Pound
    /\ direct.value.total_losses = 5000 * Pound
    /\ direct.value.net_gains_after_losses = 5000 * Pound
    /\ direct.value.annual_exempt_amount_used = 5000 * Pound
    /\ direct.value.taxable_gains = 0

\* C20: calculate_capital_gains_tax applies the property rate first:
\* min(taxable_gains, total property gains) is taxed at the property rate
\* (18% = 72/400) and only max(0, taxable_gains - total property gains) at
\* the standard rate (10% = 40/400); the two amounts sum to taxable_gains,
\* nothing is taxed at the standard rate while property gains remain
\* untaxed, and total_cgt = property_tax + other_gains_tax.
C20_PropertyRateFirst ==
    (direct.fn = "calculate_capital_gains_tax" /\ direct.raised = "") =>
        LET v          == direct.value
            property   == GainsOf(direct.args[1], {"property"})
            atProperty == IF v.taxable_gains < property THEN v.taxable_gains ELSE property
            atStandard == IF v.taxable_gains - property > 0
                          THEN v.taxable_gains - property ELSE 0
        IN  /\ v.property_tax = (atProperty \div 400) * 72
            /\ v.other_gains_tax = (atStandard \div 400) * 40
            /\ atProperty + atStandard = v.taxable_gains
            /\ atStandard > 0 => atProperty = property
            /\ v.total_cgt = v.property_tax + v.other_gains_tax

\* a property gain of 30000 and an other gain of 10000 under the default
\* exemption: 34000 taxable, 30000 of it at 18% and 4000 at 10%
C20_Witness ==
    /\ direct.fn = "calculate_capital_gains_tax"
    /\ direct.raised = ""
    /\ direct.args[2] = <<>>
    /\ GainsOf(direct.args[1], {"property"}) = 30000 * Pound
    /\ direct.value.taxable_gains = 34000 * Pound
    /\ direct.value.property_tax = 5400 * Pound
    /\ direct.value.other_gains_tax = 400 * Pound
    /\ direct.value.total_cgt = 5800 * Pound

\* a contribution banded over 12570 and 50270: nothing up to 12570, lower
\* 400ths of the part up to 50270, upper 400ths of the part above
NIBanded(income, lower, upper) ==
    IF income <= 12570 * Pound THEN 0
    ELSE (((IF income < 50270 * Pound THEN income ELSE 50270 * Pound)
              - 12570 * Pound) \div 400) * lower
         + ((IF income - 50270 * Pound > 0 THEN income - 50270 * Pound ELSE 0)
              \div 400) * upper

\* C21: calculate_national_insurance gives a class 1 contribution of 0 for
\* employment income e <= 12570 and otherwise 12% of (min(e, 50270) - 12570)
\* plus 2% of max(0, e - 50270); the class 4 contribution has the same shape
\* over self-employment income with 9% and 2%, whether or not the flat
\* class 2 charge applies.  (12% = 48/400, 9% = 36/400, 2% = 8/400.)
C21_NIBanded ==
    direct.fn = "calculate_national_insurance" =>
        /\ direct.value.class1_employee = NIBanded(direct.args[1], 48, 8)
        /\ direct.value.class4_self_employed = NIBanded(direct.args[2], 36, 8)

\* employment and self-employment income of 60000 each: 4718.60 of class 1,
\* 3587.60 of class 4, and no class 2 charge
C21_Witness ==
    /\ direct.fn = "calculate_national_insurance"
    /\ direct.args = <<60000 * Pound, 60000 * Pound>>
    /\ direct.value.class1_employee = 47186 * (Pound \div 10)
    /\ direct.value.class4_self_employed = 35876 * (Pound \div 10)
    /\ direct.value.class2_self_employed = 0

\* C22: the class 2 charge of calculate_national_insurance is exactly
\* 3.45 * 52 = 179.40 when self-employment income lies in 6515..50270, both
\* bounds included, and exactly 0 below 6515 or above 50270.
C22_FlatChargeWindow ==
    direct.fn = "calculate_national_insurance" =>
        LET se == direct.args[2]
        IN  direct.value.class2_self_employed
                = IF se < 6515 * Pound \/ se > 50270 * Pound
                  THEN 0 ELSE 17940 * (Pound \div 100)

\* self-employment income of exactly 50270, the upper bound of the window
C22_Witness ==
    /\ direct.fn = "calculate_national_insurance"
    /\ direct.args[2] = 50270 * Pound
    /\ direct.value.class2_self_employed = 17940 * (Pound \div 100)

\* C23: the three components of calculate_national_insurance are independent
\* and additive: two calls with the same employment income give the same
\* class1_employee, two calls with the same self-employment income give the
\* same class2_self_employed and class4_self_employed, total_ni is the sum
\* of the three, and with self-employment income 0 total_ni is
\* class1_employee, positive for employment income above 12570.
C23_NIIndependentAdditive ==
    [][ (direct.fn = "calculate_national_insurance"
            /\ direct'.fn = "calculate_national_insurance") =>
          /\ direct.args[1] = direct'.args[1] =>
                 direct.value.class1_employee = direct'.value.class1_employee
          /\ direct.args[2] = direct'.args[2] =>
                 /\ direct.value.class2_self_employed = direct'.value.class2_self_employed
                 /\ direct.value.class4_self_employed = direct'.value.class4_self_employed
          /\ direct'.value.total_ni = direct'.value.class1_employee
                                        + direct'.value.class2_self_employed
                                        + direct'.value.class4_self_employed
          /\ direct'.args[2] = 0 =>
                 /\ direct'.value.total_ni = direct'.value.class1_employee
                 /\ direct'.args[1] > 12570 * Pound => direct'.value.total_ni > 0 ]_vars

\* employment income 30000 and self-employment income 30000: 2091.60 of
\* class 1, 179.40 of class 2 and 1568.70 of class 4, in total 3839.70
C23_Witness ==
    /\ direct.fn = "calculate_national_insurance"
    /\ direct.args = <<30000 * Pound, 30000 * Pound>>
    /\ direct.value.class1_employee = 20916 * (Pound \div 10)
    /\ direct.value.class2_self_employed = 1794 * (Pound \div 10)
    /\ direct.value.class4_self_employed = 15687 * (Pound \div 10)
    /\ direct.value.total_ni = 38397 * (Pound \div 10)

\* C24: calculate_rental_income_tax applies one regime per call.  With the
\* election set: net income = max(0, gross - 1000), allowable_expenses = 0
\* and mortgage_interest_relief = 0, whatever expenses and interest were
\* supplied.  With the election unset: property_allowance_used = 0, net
\* income = gross - allowable expenses, possibly negative, and
\* mortgage_interest_relief = 20% of the whole mortgage interest, whatever
\* the profit.  In both: taxable_rental_profit = max(0, net income) >= 0.
C24_OneRentalRegime ==
    direct.fn = "calculate_rental_income_tax" =>
        LET gross    == direct.args[1]
            expenses == direct.args[2]
            interest == direct.args[3]
            v        == direct.value
        IN  /\ direct.args[4] =>
                   /\ v.net_rental_income
                          = (IF gross - 1000 * Pound > 0 THEN gross - 1000 * Pound ELSE 0)
                   /\ v.allowable_expenses = 0
                   /\ v.mortgage_interest_relief = 0
            /\ ~direct.args[4] =>
                   /\ v.property_allowance_used = 0
                   /\ v.net_rental_income = gross - expenses
                   /\ v.mortgage_interest_relief = interest \div 5
            /\ v.taxable_rental_profit
                   = (IF v.net_rental_income > 0 THEN v.net_rental_income ELSE 0)
            /\ v.taxable_rental_profit >= 0

\* rent of 12000 with expenses of 15000 and interest of 4000, no election:
\* net income -3000, no taxable profit, relief of 800 all the same
C24_Witness ==
    /\ direct.fn = "calculate_rental_income_tax"
    /\ direct.args = <<12000 * Pound, 15000 * Pound, 4000 * Pound, FALSE>>
    /\ direct.value.net_rental_income = 0 - 3000 * Pound
    /\ direct.value.taxable_rental_profit = 0
    /\ direct.value.mortgage_interest_relief = 800 * Pound

\* the ceiling of the last band of a list of bands
Unbounded == 0 - 1

\* The generic progressive-band algorithm: the amount is distributed left to
\* right over bands of (cumulative ceiling, rate), the last one unbounded;
\* the result lists the tax of each band.  floor is the ceiling of the band
\* before.
RECURSIVE Progressive(_, _, _)
Progressive(amount, bands, floor) ==
    IF bands = <<>> THEN <<>>
    ELSE LET band    == Head(bands)
             top     == IF band.ceiling = Unbounded \/ amount < band.ceiling
                        THEN amount ELSE band.ceiling
             portion == IF top > floor THEN top - floor ELSE 0
         IN  <<(portion \div 400) * band.rate>>
                 \o Progressive(amount, Tail(bands),
                                IF band.ceiling = Unbounded THEN floor ELSE band.ceiling)

\* the bands of the contributions: nothing up to 12570, lower up to 50270,
\* upper above (rates in 400ths)
NIBands(lower, upper) ==
    << [ceiling |-> 12570 * Pound, rate |-> 0],
       [ceiling |-> 50270 * Pound, rate |-> lower],
       [ceiling |-> Unbounded, rate |-> upper] >>

\* the dividend bands of widths room, 125140 - 50270, unbounded
DividendBands(room) ==
    << [ceiling |-> room, rate |-> 35],
       [ceiling |-> room + (125140 - 50270) * Pound, rate |-> 135],
       [ceiling |-> Unbounded, rate |-> 157] >>

\* the room of a dividend call: max(0, 50270 - (T - D))
DividendRoom(D, T) ==
    IF 50270 * Pound - (T - D) > 0 THEN 50270 * Pound - (T - D) ELSE 0

\* C25: every banded computation agrees with the generic progressive-band
\* algorithm on non-negative amounts: class 1 on [(12570, 0), (50270, 12%),
\* (unbounded, 2%)], class 4 on [(12570, 0), (50270, 9%), (unbounded, 2%)],
\* dividend tax on the taxable dividends over the widths [room,
\* 125140 - 50270, unbounded] at 8.75%, 33.75%, 39.25%, and
\* _calculate_tax_bands on [(basic_rate_limit, 20%), (higher_rate_limit,
\* 40%), (unbounded, 45%)].
C25_AgreesWithGenericBands ==
    /\ direct.fn = "calculate_national_insurance" =>
           /\ direct.value.class1_employee
                  = Sum(Progressive(direct.args[1], NIBands(48, 8), 0))
           /\ direct.value.class4_self_employed
                  = Sum(Progressive(direct.args[2], NIBands(36, 8), 0))
    /\ direct.fn = "calculate_dividend_tax" =>
           direct.value.dividend_tax
               = Sum(Progressive(direct.value.taxable_dividends,
                                 DividendBands(DividendRoom(direct.args[1], direct.args[2])),
                                 0))
    /\ (direct.fn = "_calculate_tax_bands" /\ direct.args[1] >= 0) =>
           LET generic == Progressive(direct.args[1],
                              << [ceiling |-> direct.args[2], rate |-> 80],
                                 [ceiling |-> direct.args[3], rate |-> 160],
                                 [ceiling |-> Unbounded, rate |-> 180] >>, 0)
           IN  /\ direct.value.basic_rate_tax = generic[1]
               /\ direct.value.higher_rate_tax = generic[2]
               /\ direct.value.additional_rate_tax = generic[3]

\* dividends of 200000 with no other income: 199000 taxable, 50270 of it in
\* the first band, 74870 in the second and 73860 in the last
C25_Witness ==
    /\ direct.fn = "calculate_dividend_tax"
    /\ direct.args = <<200000 * Pound, 200000 * Pound>>
    /\ Progressive(direct.value.taxable_dividends, DividendBands(50270 * Pound), 0)
           = << 50270 * 4 * 35, 74870 * 4 * 135, 73860 * 4 * 157 >>
    /\ direct.value.dividend_tax = 50270 * 4 * 35 + 74870 * 4 * 135 + 73860 * 4 * 157

\* C26: for every declaration whose monetary fields are all non-negative
\* (gain/loss entries of either sign) the returned net_total_tax is
\* non-negative: the mortgage interest relief never takes the aggregate
\* liability below zero.
C26_NetTotalTaxNonNegative ==
    \A p \in Procs :
        (pc[p] = "done" /\ ~HasNegativeInput(frame[p].income_data)) =>
            returned[p][1].net_total_tax >= 0

\* C27: for every declaration whose monetary fields are all non-negative
\* the returned effective_tax_rate lies between 0 and 1 inclusive: the net
\* tax is neither negative nor more than the total income (employment
\* income + taxable rental profit + dividends) it is divided by.
C27_EffectiveRateWithinUnit ==
    \A p \in Procs :
        (pc[p] = "done" /\ ~HasNegativeInput(frame[p].income_data)) =>
            LET rate == returned[p][1].effective_tax_rate
            IN  /\ rate.den > 0
                /\ 0 <= rate.num
                /\ rate.num <= rate.den

\* C28: in calculate_dividend_tax, when the income other than dividends
\* (total_income - dividend_income) is at or above 125140, all taxable
\* dividends are taxed at the additional dividend rate of 39.25% (157/400)
\* and none at the basic or the higher dividend rate.
C28_DividendsFollowIncomePosition ==
    (direct.fn = "calculate_dividend_tax"
        /\ direct.args[2] - direct.args[1] >= 125140 * Pound) =>
        direct.value.dividend_tax = (direct.value.taxable_dividends \div 400) * 157

\* C29: the marginal_rate of calculate_income_tax agrees with the banding of
\* the same call: with no pension contributions, gift aid or allowance
\* adjustment and a whole gross income g, 1 <= g <= 100000, the tax of g
\* exceeds the tax of g - 1 by marginal_rate(g) times the one pound between
\* them.  Stated over a call with g - 1 followed by a call with g.
C29_MarginalRateIsLastUnitRate ==
    [][ (/\ direct.fn = "calculate_income_tax"
         /\ direct'.fn = "calculate_income_tax"
         /\ direct.args[2] = 0 /\ direct.args[3] = 0 /\ direct.args[4] = 0
         /\ direct'.args[2] = 0 /\ direct'.args[3] = 0 /\ direct'.args[4] = 0
         /\ direct'.args[1] = direct.args[1] + Pound
         /\ direct'.args[1] >= Pound
         /\ direct'.args[1] <= 100000 * Pound) =>
          direct'.value.total_tax - direct.value.total_tax
              = (Pound \div 400) * direct'.value.marginal_rate ]_vars

\* dictionary d without key k
Without(d, k) == [x \in DOMAIN d \ {k} |-> d[x]]

\* C30: two declarations that differ only in self_employment_income give
\* results with the same income tax, dividend tax, capital gains tax, rental
\* result and total income (the denominator of the effective rate); only
\* national_insurance, net_total_tax and effective_tax_rate may differ.
\* Self-employment income is in neither the gross income of the income tax
\* nor the total income.
C30_SelfEmploymentOnlyInNI ==
    \A p, q \in Procs :
        (/\ pc[p] = "done" /\ pc[q] = "done"
         /\ Without(frame[p].income_data, "self_employment_income")
                = Without(frame[q].income_data, "self_employment_income")) =>
            LET rp == returned[p][1]
                rq == returned[q][1]
            IN  /\ rp.tax_calculations.income_tax = rq.tax_calculations.income_tax
                /\ rp.tax_calculations.dividend_tax = rq.tax_calculations.dividend_tax
                /\ rp.tax_calculations.capital_gains_tax = rq.tax_calculations.capital_gains_tax
                /\ rp.income_breakdown = rq.income_breakdown
                /\ frame[p].total_income = frame[q].total_income
                /\ rp.effective_tax_rate.den = rq.effective_tax_rate.den
                /\ Without(rp.total_liability, "national_insurance")
                       = Without(rq.total_liability, "national_insurance")
                /\ rp.tax_calculations.income_tax.gross_income
                       = frame[p].employment_income
                             + rp.income_breakdown.rental.taxable_rental_profit
                /\ frame[p].total_income
                       = rp.tax_calculations.income_tax.gross_income
                             + rp.income_breakdown.dividends.dividend_income

\* two finished computations on declarations with self-employment incomes
\* of 30000 and 60000 and nothing else different: the national insurance and
\* the net total differ, the income tax does not
C30_Witness ==
    \E p, q \in Procs :
        /\ pc[p] = "done" /\ pc[q] = "done"
        /\ "self_employment_income" \in DOMAIN frame[p].income_data
        /\ "self_employment_income" \in DOMAIN frame[q].income_data
        /\ frame[p].income_data.self_employment_income = 30000 * Pound
        /\ frame[q].income_data.self_employment_income = 60000 * Pound
        /\ Without(frame[p].income_data, "self_employment_income")
               = Without(frame[q].income_data, "self_employment_income")
        /\ returned[p][1].total_liability.national_insurance
               # returned[q][1].total_liability.national_insurance
        /\ returned[p][1].net_total_tax # returned[q][1].net_total_tax
        /\ returned[p][1].total_liability.income_tax
               = returned[q][1].total_liability.income_tax
        /\ returned[p][1].total_liability.income_tax > 0

====
